---------------------------- MODULE Spec2Model ----------------------------
(***************************************************************************)
(* A model of contrib/libcss/build-aux/property_generator.py: the property *)
(* metadata compiler of LibCSS.  One run of main() is a pipeline            *)
(*   check argv -> DispatchParser.parse -> PropertyGenParser.parse ->       *)
(*   KeywordsParser.parse -> validate_indexes -> five output files.         *)
(*                                                                          *)
(* Text is modelled as tuples of byte values (ASCII codes), so that         *)
(* Python's str comparison, upper(), lower() and replace() are computed    *)
(* on the bytes, as the interpreter computes them.                          *)
(*                                                                          *)
(* The module also models the helper scripts of the tree, each under a      *)
(* specification of its own: src/src/utils/split_messages.py (MessagesSpec) *)
(* convert_eol of src/utils/cmake_helper.py (EolSpec),                      *)
(* process_file_content of src/utils/rename_project.py (ProjectSpec) and    *)
(* main() of src/utils/rename_files.py (FilesSpec).                         *)
(***************************************************************************)
EXTENDS Integers, Sequences, FiniteSets, TLC

VARIABLES
    argc,            \* len(sys.argv)
    perfect_hash_ok, \* what "import perfect_hash" met: "unknown" until it runs
    dispatch_file,   \* the canonical-order source (dispatch.c)
    gen_file,        \* the metadata source (properties.gen)
    keywords_file,   \* the keyword source (keywords.gen)
    pc,              \* the position of main()
    dispatch_order,  \* DispatchParser.properties
    prop_map,        \* PropertyGenParser.prop_map
    keywords,        \* KeywordsParser.keywords
    warnings,        \* number of WARNING lines printed to stderr
    fatal,           \* the fatal message printed, "none" when none was
    fatal_prop,      \* the property that message names, <<>> when none
    exit_code,       \* the exit status of the process, -1 while running
    enum_out, dispatch_out, propstrings_out, propstrings_strings_out,
    hash_table_out,  \* the five output files
    hasher,          \* a PerfectHashGenerator and the tables it emits
    lookup,          \* the last call of the emitted css_prop_lookup
    second_run,      \* the PerfectHashGenerator of a second run over the same keys
    messages_pc,     \* split_messages.py: the position of its main()
    fat_messages,    \* split_messages.py: the lines of the FatMessages file
    target_lang,     \* split_messages.py: sys.argv[3]
    platforms,       \* split_messages.py: sys.argv[4:], then the priority list
    data,            \* split_messages.py: the dict parse_fat_messages builds
    messages_out,    \* split_messages.py: the lines written to the output file
    eol_pc,          \* cmake_helper.py: the position of convert_eol
    eol_input,       \* cmake_helper.py: the bytes of the input file
    eol_output,      \* cmake_helper.py: the bytes written to the output file
    project_pc,      \* rename_project.py: the position of process_file_content
    c_file,          \* rename_project.py: the lines of the C-style file
    in_block_comment, \* rename_project.py: the flag of process_file_content
    new_lines,       \* rename_project.py: the lines processed so far
    files_pc,        \* rename_files.py: the position of its main()
    dry_run,         \* rename_files.py: args.dry_run
    filesystem,      \* rename_files.py: the files and directories under the root
    walked,          \* rename_files.py: the directories os.walk has yielded
    to_rename,       \* rename_files.py: the list of (full_path, type)
    renamed          \* rename_files.py: the number of items the second loop has handled

vars == <<argc, perfect_hash_ok, dispatch_file, gen_file, keywords_file, pc,
          dispatch_order, prop_map, keywords, warnings, fatal, fatal_prop,
          exit_code, enum_out, dispatch_out, propstrings_out, propstrings_strings_out,
          hash_table_out, hasher, lookup, second_run,
          messages_pc, fat_messages, target_lang, platforms, data, messages_out,
          eol_pc, eol_input, eol_output,
          project_pc, c_file, in_block_comment, new_lines,
          files_pc, dry_run, filesystem, walked, to_rename, renamed>>

inputs == <<argc, perfect_hash_ok, dispatch_file, gen_file, keywords_file>>

outputs == <<enum_out, dispatch_out, propstrings_out, propstrings_strings_out,
             hash_table_out>>

hashvars == <<hasher, lookup, second_run>>

\* the state of property_generator.py
generatorvars == <<inputs, pc, dispatch_order, prop_map, keywords, warnings, fatal,
                   fatal_prop, exit_code, outputs, hashvars>>

\* the state of split_messages.py
messagesvars == <<messages_pc, fat_messages, target_lang, platforms, data,
                  messages_out>>

\* the state of cmake_helper.py
eolvars == <<eol_pc, eol_input, eol_output>>

\* the state of rename_project.py
projectvars == <<project_pc, c_file, in_block_comment, new_lines>>

\* the state of rename_files.py
filesvars == <<files_pc, dry_run, filesystem, walked, to_rename, renamed>>

\* the state of the helper scripts
scriptvars == <<messagesvars, eolvars, projectvars, filesvars>>

\* what a run of split_messages.py leaves alone
besides_messages == <<generatorvars, eolvars, projectvars, filesvars>>

\* what a run of convert_eol leaves alone
besides_eol == <<generatorvars, messagesvars, projectvars, filesvars>>

\* what a run of process_file_content leaves alone
besides_project == <<generatorvars, messagesvars, eolvars, filesvars>>

\* what a run of rename_files.py leaves alone
besides_files == <<generatorvars, messagesvars, eolvars, projectvars>>

-----------------------------------------------------------------------------
(* Bytes and strings.                                                      *)

Range(s) == {s[i] : i \in 1..Len(s)}

IsLowerLetter(c) == c >= 97 /\ c <= 122          \* a-z
IsUpperLetter(c) == c >= 65 /\ c <= 90           \* A-Z
IsDigit(c) == c >= 48 /\ c <= 57                 \* 0-9

\* str.upper(), str.lower() on ASCII text
upper(s) == [i \in 1..Len(s) |-> IF IsLowerLetter(s[i]) THEN s[i] - 32 ELSE s[i]]
lower(s) == [i \in 1..Len(s) |-> IF IsUpperLetter(s[i]) THEN s[i] + 32 ELSE s[i]]

\* prop_name.replace('_', '-')
hyphenated(s) == [i \in 1..Len(s) |-> IF s[i] = 95 THEN 45 ELSE s[i]]

\* Python's str "<": code point by code point, a proper prefix is smaller
StrLess(s, t) ==
    LET n == IF Len(s) < Len(t) THEN Len(s) ELSE Len(t)
    IN \E i \in 1..(n + 1) :
          /\ \A j \in 1..(i - 1) : s[j] = t[j]
          /\ IF i <= n THEN s[i] < t[i] ELSE Len(s) < Len(t)

\* The number of elements of the ascending list t that come before x: those
\* smaller than x and, with orEqual, those equal to x.  t[1..lo] do, t[hi+1..]
\* do not (a binary search).
RECURSIVE CountBefore(_, _, _, _, _)
CountBefore(t, x, orEqual, lo, hi) ==
    IF lo = hi THEN lo
    ELSE LET mid == (lo + hi + 1) \div 2 IN
         IF (IF orEqual THEN ~StrLess(x, t[mid]) ELSE StrLess(t[mid], x))
         THEN CountBefore(t, x, orEqual, mid, hi)
         ELSE CountBefore(t, x, orEqual, lo, mid - 1)

\* The number of entries of the increasing list of places p that are <= k.
RECURSIVE PlacesUpTo(_, _, _, _)
PlacesUpTo(p, k, lo, hi) ==
    IF lo = hi THEN lo
    ELSE LET mid == (lo + hi + 1) \div 2 IN
         IF p[mid] <= k THEN PlacesUpTo(p, k, mid, hi) ELSE PlacesUpTo(p, k, lo, mid - 1)

\* the list of the values f[1], ..., f[Len(f)] of a list comprehension
List(f) == SubSeq(f, 1, Len(f))

\* the value of an expression that has one
Only(S) == CHOOSE x \in S : TRUE

\* The stable merge of two ascending lists, a before b: an element of a goes
\* after the elements of b smaller than it, an element of b after the elements
\* of a not greater than it.  The places are searched for the shorter list,
\* the elements of the other fill the remaining places in order.
Merge(a, b) ==
    IF Len(a) <= Len(b)
    THEN LET place == [i \in 1..Len(a) |-> i + CountBefore(b, a[i], FALSE, 0, Len(b))]
         IN [k \in 1..(Len(a) + Len(b)) |->
                LET i == PlacesUpTo(place, k, 0, Len(a)) IN
                IF i > 0 /\ place[i] = k THEN a[i] ELSE b[k - i]]
    ELSE LET place == [j \in 1..Len(b) |-> j + CountBefore(a, b[j], TRUE, 0, Len(a))]
         IN [k \in 1..(Len(a) + Len(b)) |->
                LET j == PlacesUpTo(place, k, 0, Len(b)) IN
                IF j > 0 /\ place[j] = k THEN b[j] ELSE a[k - j]]

\* the merge of the ascending runs number lo..hi of s; run r is
\* s[starts[r] .. starts[r + 1] - 1]
RECURSIVE MergeRuns(_, _, _, _)
MergeRuns(s, starts, lo, hi) ==
    IF lo = hi THEN SubSeq(s, starts[lo], starts[lo + 1] - 1)
    ELSE LET mid == (lo + hi) \div 2 IN
         Merge(MergeRuns(s, starts, lo, mid), MergeRuns(s, starts, mid + 1, hi))

\* sorted(list) of strings: the stable ascending sort, as a merge sort of the
\* ascending runs of the list
sorted(s) ==
    IF Len(s) <= 1 THEN s
    ELSE LET starts == SelectSeq([i \in 1..Len(s) |-> i],
                                 LAMBDA i : i = 1 \/ StrLess(s[i], s[i - 1]))
                       \o <<Len(s) + 1>>
         IN MergeRuns(s, starts, 1, Len(starts) - 1)

\* s.startswith(p) at offset i (1-based)
MatchAt(s, p, i) ==
    /\ i + Len(p) - 1 <= Len(s)
    /\ \A j \in 1..Len(p) : s[i + j - 1] = p[j]

\* str.replace(p, ''): every non-overlapping occurrence, left to right
RECURSIVE RemoveAll(_, _, _)
RemoveAll(s, p, i) ==
    IF i > Len(s) THEN <<>>
    ELSE IF MatchAt(s, p, i) THEN RemoveAll(s, p, i + Len(p))
    ELSE <<s[i]>> \o RemoveAll(s, p, i + 1)

\* p in s
Contains(s, p) == \E i \in 1..(Len(s) + 1) : MatchAt(s, p, i)

\* the literals 'CSS_PROP_', 'SHORTHAND', 'MANUAL', 'WRAP:', 'GENERIC'
CSS_PROP_ == <<67, 83, 83, 95, 80, 82, 79, 80, 95>>
SHORTHAND == <<83, 72, 79, 82, 84, 72, 65, 78, 68>>
MANUAL == <<77, 65, 78, 85, 65, 76>>
WRAP == <<87, 82, 65, 80, 58>>
GENERIC == <<71, 69, 78, 69, 82, 73, 67>>
\* a parse specification that is none of these: 'IDENT'
IDENT == <<73, 68, 69, 78, 84>>

-----------------------------------------------------------------------------
(* Program constants.                                                      *)

MinProperties == 50       \* DispatchParser.parse: "if len(matches) < 50"
MinGenProperties == 50    \* PropertyGenParser.parse: "if len(self.prop_map) < 50"
MinKeywords == 10         \* KeywordsParser.parse: "if len(self.keywords) < 10"
ExpectedArgc == 9         \* main: "if len(sys.argv) != 9"

(* Bounds of the model.                                                    *)

MaxDispatchTail == 2      \* entries of dispatch.c that vary from run to run
MaxGenTail == 2           \* lines of properties.gen that vary from run to run

-----------------------------------------------------------------------------
(* The input files.  A file is missing, unreadable or readable; the        *)
(* content of a readable file is what the parser's regular expressions see:*)
(* dispatch.c as the marker and its "PROPERTY_FUNCS(name),\n flag," items, *)
(* properties.gen and keywords.gen as their stripped lines.  Each file     *)
(* holds a fixed body, long enough for the minimum-count checks to be      *)
(* decided by the part that varies.                                        *)

FileStatus == {"missing", "unreadable", "ok"}

SeqsUpTo(S, n) == UNION {[1..k -> S] : k \in 0..n}

\* the body: names "pa", "pb", ..., "pz", "qa", ...
BodyName(i) == <<112 + (i \div 26), 97 + (i % 26)>>

Item(name, flag) == [name |-> name, flag |-> flag]

DispatchBody(n) == [i \in 1..n |-> Item(BodyName(i - 1), <<48 + (i % 2)>>)]

\* "ab" inherited, "a_b" not inherited, "ab" with the flag 2, "ab" with the
\* flag -1
DispatchItems == { Item(<<97, 98>>, <<49>>),
                   Item(<<97, 95, 98>>, <<48>>),
                   Item(<<97, 98>>, <<50>>),
                   Item(<<97, 98>>, <<45, 49>>) }

DispatchContents ==
    {[marker |-> FALSE, items |-> <<>>]} \cup
    {[marker |-> TRUE, items |-> tail \o DispatchBody(n)] :
        tail \in SeqsUpTo(DispatchItems, MaxDispatchTail),
        n \in {0, MinProperties - 1}}

GenLine(name, enum, spec) ==
    [kind |-> "text", name |-> name, enum |-> enum, spec |-> spec]

CommentLine == [kind |-> "comment", name |-> <<>>, enum |-> <<>>, spec |-> <<>>]
BlankLine == [kind |-> "blank", name |-> <<>>, enum |-> <<>>, spec |-> <<>>]

GenBody(n) ==
    <<CommentLine, BlankLine>> \o
    [i \in 1..n |-> GenLine(BodyName(i - 1),
                            CSS_PROP_ \o upper(BodyName(i - 1)),
                            IDENT)]

\* ab:CSS_PROP_AB, b:CSS_PROP_B SHORTHAND, abc:CSS_PROP_AB (an alias),
\* a_b:CSS_PROP_A_B GENERIC, a line whose symbol is in lower case, and
\* abc:CSS_PROP_AB MANUAL
GenLines == { GenLine(<<97, 98>>, CSS_PROP_ \o <<65, 66>>, IDENT),
              GenLine(<<97, 98, 99>>, CSS_PROP_ \o <<65, 66>>, MANUAL),
              GenLine(<<98>>, CSS_PROP_ \o <<66>>, SHORTHAND),
              GenLine(<<97, 98, 99>>, CSS_PROP_ \o <<65, 66>>, IDENT),
              GenLine(<<97, 95, 98>>, CSS_PROP_ \o <<65, 95, 66>>, GENERIC),
              GenLine(<<97, 98>>, <<99, 115, 115>>, IDENT) }

GenContents ==
    {[lines |-> GenBody(n) \o tail] :
        tail \in SeqsUpTo(GenLines, MaxGenTail),
        n \in {0, MinGenProperties - 1}}

KeywordBody(n) == <<<<35, 107>>, <<>>>> \o [i \in 1..n |-> <<75, 64 + i>>]

\* keyword files that are too short, and files that are long enough; a file
\* of each kind holds a line that is no keyword
KeywordContents ==
    {[lines |-> KeywordBody(0)],
     [lines |-> KeywordBody(0) \o <<<<97, 49>>, <<65, 95>>>>],
     [lines |-> KeywordBody(MinKeywords - 1) \o <<<<65, 66>>>>],
     [lines |-> KeywordBody(MinKeywords - 1) \o <<<<97, 49>>, <<65, 95>>>>]}

NoContent == [marker |-> FALSE, items |-> <<>>, lines |-> <<>>]

-----------------------------------------------------------------------------
(* DispatchParser.parse                                                    *)

\* [a-z_]+
IsPropName(s) == Len(s) > 0 /\ \A i \in 1..Len(s) : IsLowerLetter(s[i]) \/ s[i] = 95

\* \d+
IsDigits(s) == Len(s) > 0 /\ \A i \in 1..Len(s) : IsDigit(s[i])

\* re.findall(pattern, content): the items the pattern matches, in file order
FindAll(items) ==
    SelectSeq(items, LAMBDA it : IsPropName(it.name) /\ IsDigits(it.flag))

\* the loop over matches: it stops (sys.exit) at the first flag that is
\* neither '0' nor '1', having appended the properties before it
DispatchLoop(matches) ==
    LET bad == {i \in 1..Len(matches) : matches[i].flag \notin {<<48>>, <<49>>}}
        stop == IF bad = {} THEN Len(matches) + 1
                ELSE CHOOSE i \in bad : \A j \in bad : i <= j
    IN [properties |-> [i \in 1..(stop - 1) |->
                           [name |-> matches[i].name,
                            inherited |-> (matches[i].flag = <<49>>)]],
        fatal |-> IF bad = {} THEN "none" ELSE "invalid_flag"]

\* DispatchParser.parse without the floor of 50 entries
DispatchParse_without_floor(status, content) ==
    IF status = "missing" THEN [properties |-> <<>>, fatal |-> "dispatch_not_found"]
    ELSE IF status = "unreadable" THEN [properties |-> <<>>, fatal |-> "dispatch_unreadable"]
    ELSE IF ~content.marker THEN [properties |-> <<>>, fatal |-> "no_prop_dispatch"]
    ELSE LET matches == FindAll(content.items) IN
         IF matches = <<>> THEN [properties |-> <<>>, fatal |-> "no_entries"]
         ELSE DispatchLoop(matches)

\* the result of DispatchParser.parse on a file
DispatchParse(status, content) ==
    IF status = "missing" THEN [properties |-> <<>>, fatal |-> "dispatch_not_found"]
    ELSE IF status = "unreadable" THEN [properties |-> <<>>, fatal |-> "dispatch_unreadable"]
    ELSE IF ~content.marker THEN [properties |-> <<>>, fatal |-> "no_prop_dispatch"]
    ELSE LET matches == FindAll(content.items) IN
         IF matches = <<>> THEN [properties |-> <<>>, fatal |-> "no_entries"]
         ELSE IF Len(matches) < MinProperties
              THEN [properties |-> <<>>, fatal |-> "too_few_properties"]
              ELSE DispatchLoop(matches)

-----------------------------------------------------------------------------
(* PropertyGenParser.parse                                                 *)

\* [A-Z][A-Z0-9_]+
IsEnumName(s) ==
    /\ Len(s) >= 2
    /\ IsUpperLetter(s[1])
    /\ \A i \in 2..Len(s) : IsUpperLetter(s[i]) \/ IsDigit(s[i]) \/ s[i] = 95

\* re.match(r'^([a-z_]+):([A-Z][A-Z0-9_]+)\s+(.*)$', line): the line was
\* stripped, so the white space after the symbol is followed by some text
GenLineMatches(line) ==
    IsPropName(line.name) /\ IsEnumName(line.enum) /\ line.spec # <<>>

\* the inner check re.match(r'^[A-Z][A-Z0-9_]*$', enum_name)
EnumFormatOk(s) ==
    /\ Len(s) >= 1
    /\ IsUpperLetter(s[1])
    /\ \A i \in 2..Len(s) : IsUpperLetter(s[i]) \/ IsDigit(s[i]) \/ s[i] = 95

is_shorthand(spec) == spec = SHORTHAND \/ Contains(spec, WRAP)
is_manual(spec) == spec = MANUAL
is_generic(spec) == Contains(spec, GENERIC)
enum_base(enum_name) == lower(RemoveAll(enum_name, CSS_PROP_, 1))
is_alias(prop_name, enum_name, spec) ==
    (prop_name # enum_base(enum_name)) /\ ~is_shorthand(spec) /\ ~is_generic(spec)

EmptyPropMap == [order |-> <<>>, meta |-> <<>>]

\* "name in self.metadata", "self.metadata[name]"
InMetadata(pm, name) == name \in DOMAIN pm.meta

\* What the loop does with a line of properties.gen.  A line is skipped when
\* it is blank or a comment, or when the pattern does not match it; a matched
\* line whose symbol fails the inner check prints a warning; a matched line is
\* stored unless it is generic.
LineStatus(line) ==
    IF line.kind # "text" \/ ~GenLineMatches(line) THEN "skipped"
    ELSE IF ~EnumFormatOk(line.enum) THEN "warned"
    ELSE IF is_generic(line.spec) THEN "generic"
    ELSE "stored"

\* the dict key each line is stored under, <<>> for a line that is not stored
StoredKeys(lines) ==
    List([i \in 1..Len(lines) |->
            IF LineStatus(lines[i]) = "stored" THEN lines[i].name ELSE <<>>])

\* the lines that insert a new key: a dict keeps the order of first insertion
FirstInsertions(key) ==
    SelectSeq(List([i \in 1..Len(key) |-> i]), LAMBDA i :
        key[i] # <<>> /\ \A j \in 1..(i - 1) : key[j] # key[i])

\* self.prop_map[prop_name] = {...}: a later line of the same name replaces
\* the record of an earlier one, which keeps its place in the dict
GenLoop(lines) ==
    Only({ Only({
        [prop_map |->
            [order |-> List([k \in 1..Len(first) |-> key[first[k]]]),
             meta |-> [name \in {key[first[k]] : k \in 1..Len(first)} |->
                         LET at == CHOOSE i \in 1..Len(key) :
                                      key[i] = name /\ \A j \in (i + 1)..Len(key) :
                                                          key[j] # name
                             line == lines[at]
                         IN [enum |-> line.enum,
                             is_shorthand |-> is_shorthand(line.spec),
                             is_alias |-> is_alias(line.name, line.enum, line.spec),
                             line |-> at]]],
         warnings |-> Cardinality({i \in 1..Len(lines) :
                                      LineStatus(lines[i]) = "warned"})]
        : first \in {FirstInsertions(key)} })
        : key \in {StoredKeys(lines)} })

\* the result of PropertyGenParser.parse on a file
GenParse(status, content) ==
    IF status = "missing"
    THEN [prop_map |-> EmptyPropMap, warnings |-> 0, fatal |-> "gen_not_found"]
    ELSE IF status = "unreadable"
    THEN [prop_map |-> EmptyPropMap, warnings |-> 0, fatal |-> "gen_unreadable"]
    ELSE LET r == GenLoop(content.lines) IN
         [prop_map |-> r.prop_map, warnings |-> r.warnings,
          fatal |-> IF r.prop_map.order = <<>> THEN "no_gen_properties"
                    ELSE IF Len(r.prop_map.order) < MinGenProperties
                         THEN "too_few_gen_properties"
                         ELSE "none"]

-----------------------------------------------------------------------------
(* KeywordsParser.parse                                                    *)

\* re.match(r'^[A-Z_]+$', line)
IsKeyword(s) == Len(s) > 0 /\ \A i \in 1..Len(s) : IsUpperLetter(s[i]) \/ s[i] = 95

\* the loop over the lines of keywords.gen: blank lines and lines that start
\* with '#' are skipped, a keyword is appended, any other line prints a warning
KeywordLoop(lines) ==
    LET text == SelectSeq(lines, LAMBDA line : line # <<>> /\ line[1] # 35) IN
    [keywords |-> SelectSeq(text, IsKeyword),
     warnings |-> Len(SelectSeq(text, LAMBDA line : ~IsKeyword(line)))]

KeywordsParse(status, content) ==
    IF status = "missing"
    THEN [keywords |-> <<>>, warnings |-> 0, fatal |-> "keywords_not_found"]
    ELSE IF status = "unreadable"
    THEN [keywords |-> <<>>, warnings |-> 0, fatal |-> "keywords_unreadable"]
    ELSE LET r == KeywordLoop(content.lines) IN
         [keywords |-> r.keywords, warnings |-> r.warnings,
          fatal |-> IF r.keywords = <<>> THEN "no_keywords"
                    ELSE IF Len(r.keywords) < MinKeywords THEN "too_few_keywords"
                         ELSE "none"]

-----------------------------------------------------------------------------
(* MultiFileGenerator                                                      *)

\* [prop_info['name'] for prop_info in self.dispatch_order]
all_props(d) == [i \in 1..Len(d) |-> d[i].name]

\* [name for name, meta in self.metadata.items()
\*       if meta.get('is_shorthand', False) and not meta.get('is_manual', False)
\*       and name not in all_props]: no record has the key 'is_manual'
shorthands(d, pm) ==
    SelectSeq(pm.order, LAMBDA n : pm.meta[n].is_shorthand /\ n \notin Range(all_props(d)))

\* [name for name, meta in self.metadata.items()
\*       if meta.get('is_alias', False) and name not in all_props]
aliases(d, pm) ==
    SelectSeq(pm.order, LAMBDA n : pm.meta[n].is_alias /\ n \notin Range(all_props(d)))

\* sorted(all_props + shorthands + aliases)
sorted_props(d, pm) == sorted(all_props(d) \o shorthands(d, pm) \o aliases(d, pm))

\* validate_indexes: the first property of sorted_props already seen, <<>> if none
FirstDuplicateAt(sp) ==
    IF \E i \in 1..Len(sp) : \E j \in 1..(i - 1) : sp[j] = sp[i]
    THEN CHOOSE i \in 1..Len(sp) :
            /\ \E j \in 1..(i - 1) : sp[j] = sp[i]
            /\ \A k \in 1..(i - 1) : \A j \in 1..(k - 1) : sp[j] # sp[k]
    ELSE 0

validate_indexes(d, pm) ==
    LET sp == sorted_props(d, pm)
        at == FirstDuplicateAt(sp)
    IN IF at = 0 THEN [fatal |-> "none", prop |-> <<>>]
       ELSE [fatal |-> "duplicate_property", prop |-> sp[at]]

\* the hexadecimal digits of n, lower case, most significant first
RECURSIVE HexDigits(_)
HexDigits(n) ==
    LET d == n % 16
        c == IF d < 10 THEN 48 + d ELSE 87 + d
    IN IF n < 16 THEN <<c>> ELSE Append(HexDigits(n \div 16), c)

\* f"0x{idx:03x}"
hex_val(idx) ==
    LET ds == HexDigits(idx)
        pad == IF Len(ds) < 3 THEN [i \in 1..(3 - Len(ds)) |-> 48] ELSE <<>>
    IN <<48, 120>> \o pad \o ds

\* the positions of dispatch_order (1-based) whose name is in the metadata
WithMetadata(d, pm) ==
    SelectSeq([i \in 1..Len(d) |-> i], LAMBDA i : InMetadata(pm, d[i].name))

\* generate_enum with a counter of the emitted entries in place of idx
generate_enum_repacked(d, pm) ==
    LET at == WithMetadata(d, pm) IN
    [k \in 1..Len(at) |->
        [enum_name |-> pm.meta[d[at[k]].name].enum, hex_val |-> hex_val(k - 1)]]

\* generate_enum: the lines "\t{enum_name} = {hex_val},"
generate_enum(d, pm) ==
    LET at == WithMetadata(d, pm) IN
    [k \in 1..Len(at) |->
        [enum_name |-> pm.meta[d[at[k]].name].enum, hex_val |-> hex_val(at[k] - 1)]]

\* generate_dispatch with a flag that does not come from dispatch_order
generate_dispatch_uninherited(d, pm) ==
    LET at == WithMetadata(d, pm) IN
    [k \in 1..Len(at) |-> [prop_name |-> d[at[k]].name, inherited |-> 0]]

\* generate_dispatch: the rows "{ PROPERTY_FUNCS({prop_name}), {inherited}, },"
generate_dispatch(d, pm) ==
    LET at == WithMetadata(d, pm) IN
    [k \in 1..Len(at) |->
        [prop_name |-> d[at[k]].name,
         inherited |-> IF d[at[k]].inherited THEN 1 ELSE 0]]

\* the collection of generate_propstrings without the aliases
all_identifiers_without_aliases(d, pm) ==
    LET all == [i \in 1..Len(d) |-> upper(d[i].name)]
        sh == SelectSeq(pm.order, LAMBDA n :
                  pm.meta[n].is_shorthand /\ upper(n) \notin Range(all))
    IN sorted(all \o [i \in 1..Len(sh) |-> upper(sh[i])])

\* the upper-case names generate_propstrings collects and sorts
all_identifiers(d, pm) ==
    LET all == [i \in 1..Len(d) |-> upper(d[i].name)]
        sh == SelectSeq(pm.order, LAMBDA n :
                  pm.meta[n].is_shorthand /\ upper(n) \notin Range(all))
        al == SelectSeq(pm.order, LAMBDA n :
                  pm.meta[n].is_alias /\ upper(n) \notin Range(all))
    IN sorted(all \o [i \in 1..Len(sh) |-> upper(sh[i])]
                  \o [i \in 1..Len(al) |-> upper(al[i])])

\* generate_propstrings: "\t{identifier} = FIRST_PROP," for the first
\* identifier, "\t{identifier}," for the others, then "\tLAST_PROP = {last_id},"
generate_propstrings(d, pm) ==
    LET ids == all_identifiers(d, pm) IN
    [entries |-> [i \in 1..Len(ids) |->
                     [identifier |-> ids[i],
                      value |-> IF i = 1 THEN "FIRST_PROP" ELSE ""]],
     last_prop |-> IF ids # <<>> THEN <<ids[Len(ids)]>> ELSE <<>>]

\* 'css__parse_'
css__parse_ == <<99, 115, 115, 95, 95, 112, 97, 114, 115, 101, 95>>

\* generate_parse_handlers: the rows of
\* property_handlers[LAST_PROP + 1 - FIRST_PROP], "\tcss__parse_{prop_name},"
generate_parse_handlers(d, pm) ==
    LET sp == sorted_props(d, pm) IN
    [i \in 1..Len(sp) |-> css__parse_ \o sp[i]]

\* generate_propstrings_strings: the literals of the lines 'SMAP("{css_name}"),'
generate_propstrings_strings(d, pm) ==
    LET sp == sorted_props(d, pm) IN
    [i \in 1..Len(sp) |-> hyphenated(sp[i])]

\* generate_hash_table: the key tuples (lookup_key, handler_name, css_name)
hash_keys(d, pm) ==
    LET sp == sorted_props(d, pm) IN
    [i \in 1..Len(sp) |->
        [key |-> hyphenated(sp[i]),
         handler |-> css__parse_ \o sp[i],
         css_name |-> hyphenated(sp[i])]]

\* MultiFileGenerator.__init__: the object keeps the three parse results
MultiFileGenerator(d, metadata, kw) ==
    [dispatch_order |-> d, metadata |-> metadata, keywords |-> kw]

\* a generator whose generate_propstrings does what its docstring says,
\* "includes keywords and properties"
Artifacts_with_keywords(generator) ==
    [enum |-> generate_enum(generator.dispatch_order, generator.metadata),
     dispatch |-> generate_dispatch(generator.dispatch_order, generator.metadata),
     propstrings |->
        [generate_propstrings(generator.dispatch_order, generator.metadata)
            EXCEPT !.entries =
               [i \in 1..Len(generator.keywords) |->
                   [identifier |-> generator.keywords[i], value |-> ""]] \o @],
     propstrings_strings |->
        generate_propstrings_strings(generator.dispatch_order, generator.metadata),
     hash_keys |-> hash_keys(generator.dispatch_order, generator.metadata)]

\* what the methods of a generator object return to main(): generate_enum,
\* generate_dispatch, generate_propstrings, generate_propstrings_strings and
\* the key tuples of generate_hash_table.  Each method reads
\* self.dispatch_order and self.metadata; none reads self.keywords.
Artifacts(generator) ==
    [enum |-> generate_enum(generator.dispatch_order, generator.metadata),
     dispatch |-> generate_dispatch(generator.dispatch_order, generator.metadata),
     propstrings |->
        generate_propstrings(generator.dispatch_order, generator.metadata),
     propstrings_strings |->
        generate_propstrings_strings(generator.dispatch_order, generator.metadata),
     hash_keys |-> hash_keys(generator.dispatch_order, generator.metadata)]

-----------------------------------------------------------------------------
(* PerfectHashGenerator and the C code it emits                            *)

\* char lower[64]
LowerSize == 64
\* uint8_t name_len holds a length modulo 256
Uint8Range == 256
\* the null pointer of the emitted C code: no string, no handler
NULL == <<>>

\* PerfectHashGenerator.__init__
NewHasher(keys) ==
    [keys |-> keys, hash_table |-> <<>>, table_size |-> 0,
     G |-> <<>>, S1 |-> <<>>, S2 |-> <<>>]

\* sum(S[i] * key[i]) for i in lo..hi
RECURSIVE WeightedSum(_, _, _, _)
WeightedSum(S, key, lo, hi) ==
    IF lo > hi THEN 0
    ELSE IF lo = hi THEN S[lo] * key[lo]
    ELSE LET mid == (lo + hi) \div 2 IN
         WeightedSum(S, key, lo, mid) + WeightedSum(S, key, mid + 1, hi)

\* the loop of css_prop_hash, "for (i = 0; i < len && i < salt_len; i++)
\* f += S[i] * key[i]", followed by "f %= len(G)".  f1 and f2 of the library
\* compute the same sum over a key the salt is long enough for.  The sums of
\* the keys drawn here stay far below 2^32, the width of unsigned int.
SaltHash(S, key, NG) ==
    WeightedSum(S, key, 1, IF Len(key) < Len(S) THEN Len(key) ELSE Len(S)) % NG

\* css_prop_hash(key, len): return (G[f1] + G[f2]) % len(G), over the emitted
\* tables; G is indexed from 0
css_prop_hash(h, key) ==
    (h.G[SaltHash(h.S1, key, h.table_size)]
       + h.G[SaltHash(h.S2, key, h.table_size)]) % h.table_size

\* the entry of css_prop_hash_table at a slot: '[slot] = { "css_name",
\* len(css_name), handler }' for the slots of self.hash_table, zero elsewhere
css_prop_hash_table(h, slot) ==
    IF slot \in DOMAIN h.hash_table
    THEN [name |-> h.hash_table[slot].css_name,
          name_len |-> Len(h.hash_table[slot].css_name) % Uint8Range,
          handler |-> h.hash_table[slot].handler]
    ELSE [name |-> NULL, name_len |-> 0, handler |-> NULL]

\* (c >= 'A' && c <= 'Z') ? c + 32 : c, for every byte of the name
CaseFold(name) == [i \in 1..Len(name) |-> IF IsUpperLetter(name[i]) THEN name[i] + 32
                                                                     ELSE name[i]]

\* css_prop_lookup(name, len)
css_prop_lookup(h, name) ==
    IF Len(name) >= LowerSize THEN NULL
    ELSE LET folded == List(CaseFold(name))
             slot == css_prop_hash(h, folded)
             e == css_prop_hash_table(h, slot)
         IN IF slot >= h.table_size THEN NULL
            ELSE IF e.name = NULL \/ e.name_len # Len(name) THEN NULL
            ELSE IF \E i \in 1..Len(name) : folded[i] # e.name[i] THEN NULL
            ELSE e.handler

-----------------------------------------------------------------------------
(* src/utils/split_messages.py                                             *)

MaxMessageLines == 3

\* "en", "fr", "de"; "all", "win", "gtk"
default_lang == <<101, 110>>
French == <<102, 114>>
German == <<100, 101>>
AllPlatforms == <<97, 108, 108>>
Windows == <<119, 105, 110>>
Gtk == <<103, 116, 107>>

\* the line "lang.plat.key:value"
MessageLine(lang, plat, key, value) ==
    lang \o <<46>> \o plat \o <<46>> \o key \o <<58>> \o value

\* en.all.K:v  fr.win.K:w  fr.all.K:x  en.win.J:y  fr.gtk.J:z  de.all.L:u
\* en.all.K.M:a:b (a key with a dot, a value with a colon), "en.all:v " (two
\* parts only), "#c" and "no colon"
MessageLines ==
    { MessageLine(default_lang, AllPlatforms, <<75>>, <<118>>),
      MessageLine(French, Windows, <<75>>, <<119>>),
      MessageLine(French, AllPlatforms, <<75>>, <<120>>),
      MessageLine(default_lang, Windows, <<74>>, <<121>>),
      MessageLine(French, Gtk, <<74>>, <<122>>),
      MessageLine(German, AllPlatforms, <<76>>, <<117>>),
      MessageLine(default_lang, AllPlatforms, <<75, 46, 77>>, <<97, 58, 98>>),
      default_lang \o <<46>> \o AllPlatforms \o <<58, 118, 32>>,
      <<35, 99>>,
      <<110, 111, 32, 99, 111, 108, 111, 110>> }

\* sys.argv[4:]: no platform (too few arguments), "win", "win all", "all win"
PlatformArguments ==
    {<<>>, <<Windows>>, <<Windows, AllPlatforms>>, <<AllPlatforms, Windows>>}

\* str.strip(): white space removed at both ends
IsSpace(c) == c \in {9, 10, 11, 12, 13, 32}
strip(s) ==
    LET kept == {i \in 1..Len(s) : ~IsSpace(s[i])} IN
    IF kept = {} THEN <<>>
    ELSE SubSeq(s, CHOOSE i \in kept : \A j \in kept : i <= j,
                   CHOOSE i \in kept : \A j \in kept : i >= j)

\* str.index(c): the first position of c (1-based), 0 for ValueError
index(s, c) ==
    IF \E i \in 1..Len(s) : s[i] = c
    THEN CHOOSE i \in 1..Len(s) : s[i] = c /\ \A j \in 1..(i - 1) : s[j] # c
    ELSE 0

\* meta_key.split('.', 2): at most three parts, cut at the first two dots
split_dot_2(s) ==
    LET d1 == index(s, 46) IN
    IF d1 = 0 THEN <<s>>
    ELSE LET rest == SubSeq(s, d1 + 1, Len(s))
             d2 == index(rest, 46)
         IN IF d2 = 0 THEN <<SubSeq(s, 1, d1 - 1), rest>>
            ELSE <<SubSeq(s, 1, d1 - 1), SubSeq(rest, 1, d2 - 1),
                   SubSeq(rest, d2 + 1, Len(rest))>>

\* data = {}: keys holds the keys of the dict in insertion order, value maps
\* <<key, lang, plat>> to data[key][lang][plat]
EmptyData == [keys |-> <<>>, value |-> <<>>]

\* "lang in data[key]"
LangInData(d, key, lang) == \E t \in DOMAIN d.value : t[1] = key /\ t[2] = lang

\* the body of the loop of parse_fat_messages for one line of the file
parse_fat_line(d, raw) ==
    LET line == strip(raw) IN
    IF line = <<>> \/ line[1] = 35 THEN d
    ELSE LET colon_index == index(line, 58) IN
         IF colon_index = 0 THEN d
         ELSE LET meta_key == SubSeq(line, 1, colon_index - 1)
                  value == SubSeq(line, colon_index + 1, Len(line))
                  parts == split_dot_2(meta_key)
              IN IF Len(parts) # 3 THEN d
                 ELSE LET t == <<parts[3], parts[1], parts[2]>> IN
                      [keys |-> IF \E i \in 1..Len(d.keys) : d.keys[i] = parts[3]
                                THEN d.keys ELSE Append(d.keys, parts[3]),
                       value |-> [u \in DOMAIN d.value \cup {t} |->
                                     IF u = t THEN value ELSE d.value[u]]]

\* parse_fat_messages over the first n lines of the file
RECURSIVE parse_fat_messages(_, _)
parse_fat_messages(lines, n) ==
    IF n = 0 THEN EmptyData
    ELSE parse_fat_line(parse_fat_messages(lines, n - 1), lines[n])

\* selected_value: None, or a value
None == [some |-> FALSE, value |-> <<>>]
Some(v) == [some |-> TRUE, value |-> v]

\* for plat in platforms: if plat in data[key][lang]: ...; break
RECURSIVE first_platform(_, _, _, _, _)
first_platform(d, key, lang, plats, i) ==
    IF i > Len(plats) THEN None
    ELSE IF <<key, lang, plats[i]>> \in DOMAIN d.value
         THEN Some(d.value[<<key, lang, plats[i]>>])
         ELSE first_platform(d, key, lang, plats, i + 1)

\* a selection that asks the default language first
selected_value_default_first(d, key, lang, plats) ==
    LET default == IF LangInData(d, key, default_lang)
                   THEN first_platform(d, key, default_lang, plats, 1) ELSE None
    IN IF ~default.some /\ LangInData(d, key, lang)
       THEN first_platform(d, key, lang, plats, 1)
       ELSE default

\* the selection generate_messages makes for one key
selected_value(d, key, lang, plats) ==
    LET target == IF LangInData(d, key, lang)
                  THEN first_platform(d, key, lang, plats, 1) ELSE None
    IN IF ~target.some /\ LangInData(d, key, default_lang)
       THEN first_platform(d, key, default_lang, plats, 1)
       ELSE target

\* f"{key}:{selected_value}\n"
output_line(key, value) == key \o <<58>> \o value \o <<10>>

\* the lines generate_messages writes, in the order of the keys of data
generate_messages(d, lang, plats) ==
    LET chosen == [i \in 1..Len(d.keys) |-> selected_value(d, d.keys[i], lang, plats)]
        written == SelectSeq([i \in 1..Len(d.keys) |-> i], LAMBDA i : chosen[i].some)
    IN [k \in 1..Len(written) |-> output_line(d.keys[written[k]], chosen[written[k]].value)]

\* split_messages.py is not running
MessagesIdle ==
    /\ messages_pc = "idle"
    /\ fat_messages = <<>>
    /\ target_lang = <<>>
    /\ platforms = <<>>
    /\ data = EmptyData
    /\ messages_out = <<>>

-----------------------------------------------------------------------------
(* src/utils/cmake_helper.py: convert_eol                                  *)

MaxEolLen == 3

\* b'\xef\xbb\xbf'
BOM == <<239, 187, 191>>

\* the bytes of the input files: CR, LF, space, tab and the letter a
EolBytes == {13, 10, 32, 9, 97}

\* bytes.replace(old, new): every non-overlapping occurrence, left to right
RECURSIVE replace(_, _, _, _)
replace(s, old, new, i) ==
    IF i > Len(s) THEN <<>>
    ELSE IF MatchAt(s, old, i) THEN new \o replace(s, old, new, i + Len(old))
    ELSE <<s[i]>> \o replace(s, old, new, i + 1)

\* content.split(b'\n')
RECURSIVE split_lf(_)
split_lf(s) ==
    LET at == index(s, 10) IN
    IF at = 0 THEN <<s>>
    ELSE <<SubSeq(s, 1, at - 1)>> \o split_lf(SubSeq(s, at + 1, Len(s)))

\* ln.rstrip(b' \t')
rstrip_blank(ln) ==
    LET kept == {i \in 1..Len(ln) : ln[i] \notin {32, 9}} IN
    IF kept = {} THEN <<>>
    ELSE SubSeq(ln, 1, CHOOSE i \in kept : \A j \in kept : i >= j)

\* b'\n'.join(lines) of the first n lines
RECURSIVE join_lf(_, _)
join_lf(lines, n) ==
    IF n = 0 THEN <<>>
    ELSE IF n = 1 THEN lines[1]
    ELSE join_lf(lines, n - 1) \o <<10>> \o lines[n]

\* the content convert_eol writes for the content it read
convert_eol(content) ==
    LET no_bom == IF MatchAt(content, BOM, 1) THEN SubSeq(content, 4, Len(content))
                  ELSE content
        lf == replace(no_bom, <<13, 10>>, <<10>>, 1)
        lines == split_lf(lf)
        trimmed == [i \in 1..Len(lines) |-> rstrip_blank(lines[i])]
    IN join_lf(trimmed, Len(trimmed))

\* cmake_helper.py is not running
EolIdle ==
    /\ eol_pc = "idle"
    /\ eol_input = <<>>
    /\ eol_output = <<>>

-----------------------------------------------------------------------------
(* src/utils/rename_project.py: process_file_content on a C-style file     *)

MaxLineTokens == 4

\* 'neosurf', 'netsurf', 'wisp', 'copyright', 'marius', 'cirsta'
neosurf == <<110, 101, 111, 115, 117, 114, 102>>
netsurf == <<110, 101, 116, 115, 117, 114, 102>>
wisp == <<119, 105, 115, 112>>
copyright == <<99, 111, 112, 121, 114, 105, 103, 104, 116>>
marius == <<109, 97, 114, 105, 117, 115>>
cirsta == <<99, 105, 114, 115, 116, 97>>

\* '//', '/*', '*/', '"', "'"
LineComment == <<47, 47>>
BlockStart == <<47, 42>>
BlockEnd == <<42, 47>>
DoubleQuote == 34
SingleQuote == 39

\* the pieces the lines of the files are made of: netsurf, //, /*, */, " and x
LineTokens == {netsurf, LineComment, BlockStart, BlockEnd, <<DoubleQuote>>, <<120>>}

\* the concatenation of the first n pieces
RECURSIVE Concat(_, _)
Concat(pieces, n) == IF n = 0 THEN <<>> ELSE Concat(pieces, n - 1) \o pieces[n]

\* the second lines of the files: up to MaxLineTokens pieces and a line feed
CLines ==
    {Concat(pieces, Len(pieces)) \o <<10>> : pieces \in SeqsUpTo(LineTokens, MaxLineTokens)}

\* the first lines of the files: "x" and "/*x", which opens a block comment
FirstCLines == {<<120, 10>>, BlockStart \o <<120, 10>>}

\* RE_NEOSURF matches at offset i: (neosurf|netsurf), re.IGNORECASE
NeosurfAt(text, i) ==
    /\ i + 6 <= Len(text)
    /\ lower(SubSeq(text, i, i + 6)) \in {neosurf, netsurf}

\* str.isupper(): a cased character, and no lower-case one
isupper(word) ==
    /\ \E i \in 1..Len(word) : IsUpperLetter(word[i])
    /\ \A i \in 1..Len(word) : ~IsLowerLetter(word[i])

\* sub_func(match)
sub_func(word) ==
    IF isupper(word) THEN upper(wisp)
    ELSE IF IsUpperLetter(word[1]) THEN <<wisp[1] - 32>> \o SubSeq(wisp, 2, 4)
    ELSE wisp

\* RE_NEOSURF.sub(sub_func, text), from offset i on
RECURSIVE replace_token_from(_, _)
replace_token_from(text, i) ==
    IF i > Len(text) THEN <<>>
    ELSE IF NeosurfAt(text, i)
         THEN sub_func(SubSeq(text, i, i + 6)) \o replace_token_from(text, i + 7)
         ELSE <<text[i]>> \o replace_token_from(text, i + 1)

replace_token(text) == replace_token_from(text, 1)

\* 'copyright' in line.lower()
is_copyright_line(line) == Contains(lower(line), copyright)

\* RE_MARIUS.search(line): Marius\s+Cirsta, re.IGNORECASE
marius_search(line) ==
    \E i \in 1..Len(line) : \E j \in (i + 7)..Len(line) :
        /\ MatchAt(lower(line), marius, i)
        /\ \A k \in (i + 6)..(j - 1) : IsSpace(line[k])
        /\ MatchAt(lower(line), cirsta, j)

process_copyright_line_logic(line) ==
    IF marius_search(line) THEN replace_token(line) ELSE line

process_comment_text(text) ==
    IF is_copyright_line(text) THEN process_copyright_line_logic(text) ELSE text

process_code_part(text) ==
    IF is_copyright_line(text) THEN process_copyright_line_logic(text)
    ELSE replace_token(text)

\* str.find(p): the first offset of p (1-based), 0 when p is not in s
find(s, p) ==
    IF Contains(s, p) /\ Len(s) > 0
    THEN CHOOSE i \in 1..Len(s) : MatchAt(s, p, i) /\ \A j \in 1..(i - 1) : ~MatchAt(s, p, j)
    ELSE 0

\* str.count(c) for one character
count(s, c) == Cardinality({i \in 1..Len(s) : s[i] = c})

\* pre_comment.count('"') % 2 == 0 and pre_comment.count("'") % 2 == 0
EvenQuotes(pre_comment) ==
    count(pre_comment, DoubleQuote) % 2 = 0 /\ count(pre_comment, SingleQuote) % 2 = 0

\* the pair process_c_line returns
Processed(line, flag) == [line |-> line, in_block_comment |-> flag]

RECURSIVE process_c_line(_, _)
process_c_line(line, in_block) ==
    LET end == find(line, BlockEnd)
        slashes == find(line, LineComment)
        start == find(line, BlockStart)
        as_code == IF is_copyright_line(line)
                   THEN Processed(process_copyright_line_logic(line), FALSE)
                   ELSE Processed(replace_token(line), FALSE)
        as_block ==
            IF start > 0 /\ EvenQuotes(SubSeq(line, 1, start - 1))
            THEN LET code_part == SubSeq(line, 1, start - 1)
                     rest == SubSeq(line, start, Len(line))
                     rest_end == find(rest, BlockEnd)
                 IN IF rest_end > 0
                    THEN Processed(
                            process_code_part(code_part)
                            \o process_comment_text(SubSeq(rest, 1, rest_end + 1))
                            \o process_c_line(SubSeq(rest, rest_end + 2, Len(rest)),
                                              FALSE).line,
                            FALSE)
                    ELSE Processed(process_code_part(code_part)
                                   \o process_comment_text(rest), TRUE)
            ELSE as_code
    IN IF in_block
       THEN IF end > 0
            THEN LET post == process_c_line(SubSeq(line, end + 2, Len(line)), FALSE) IN
                 Processed(process_comment_text(SubSeq(line, 1, end + 1)) \o post.line,
                           post.in_block_comment)
            ELSE Processed(process_comment_text(line), TRUE)
       ELSE IF slashes > 0 /\ EvenQuotes(SubSeq(line, 1, slashes - 1))
            THEN Processed(process_code_part(SubSeq(line, 1, slashes - 1))
                           \o process_comment_text(SubSeq(line, slashes, Len(line))),
                           FALSE)
            ELSE as_block

\* rename_project.py is not running
ProjectIdle ==
    /\ project_pc = "idle"
    /\ c_file = <<>>
    /\ in_block_comment = FALSE
    /\ new_lines = <<>>

-----------------------------------------------------------------------------
(* src/utils/rename_files.py                                               *)

MaxNodes == 3

\* the names of the files and directories: "netsurf", "NetSurf", "x", "build"
NetSurf == <<78, 101, 116, 83, 117, 114, 102>>
build == <<98, 117, 105, 108, 100>>
Names == {netsurf, NetSurf, <<120>>, build}

\* 'Neosurf', 'NEOSURF', 'Netsurf', 'NETSURF', 'Wisp', 'WISP'
Neosurf == <<78, 101, 111, 115, 117, 114, 102>>
NEOSURF == <<78, 69, 79, 83, 85, 82, 70>>
Netsurf == <<78, 101, 116, 115, 117, 114, 102>>
NETSURF == <<78, 69, 84, 83, 85, 82, 70>>
Wisp == <<87, 105, 115, 112>>
WISP == <<87, 73, 83, 80>>

get_new_name(name) ==
    IF Contains(lower(name), neosurf)
    THEN replace(replace(replace(name, neosurf, wisp, 1), Neosurf, Wisp, 1),
                 NEOSURF, WISP, 1)
    ELSE IF Contains(lower(name), netsurf)
    THEN replace(replace(replace(name, netsurf, wisp, 1), Netsurf, Wisp, 1),
                 NETSURF, WISP, 1)
    ELSE name

\* '.git', 'build', 'build-ninja', 'build-gcc', '__pycache__'
IgnoredParts ==
    { <<46, 103, 105, 116>>,
      build,
      <<98, 117, 105, 108, 100, 45, 110, 105, 110, 106, 97>>,
      <<98, 117, 105, 108, 100, 45, 103, 99, 99>>,
      <<95, 95, 112, 121, 99, 97, 99, 104, 101, 95, 95>> }

utils == <<117, 116, 105, 108, 115>>
rename_files_py == <<114, 101, 110, 97, 109, 101, 95, 102, 105, 108, 101, 115, 46, 112, 121>>

\* should_ignore(path), path given as its parts under the root
should_ignore(parts) ==
    \/ \E i \in 1..Len(parts) : parts[i] \in IgnoredParts
    \/ /\ \E i \in 1..Len(parts) : parts[i] = utils
       /\ \E i \in 1..Len(parts) : parts[i] = rename_files_py

\* a file or a directory: its path under the root, as a tuple of names
Node(path, type) == [path |-> path, type |-> type]

\* the directories of a tree, the root among them
Directories(tree) == {<<>>} \cup {n.path : n \in {m \in tree : m.type = "dir"}}

\* os.path.dirname, os.path.basename
dirname(path) == SubSeq(path, 1, Len(path) - 1)
basename(path) == path[Len(path)]

\* the entries of a directory
Entries(tree, dir) == {n \in tree : Len(n.path) > 0 /\ dirname(n.path) = dir}

\* the trees of at most n files and directories
RECURSIVE Trees(_)
Trees(n) ==
    IF n = 0 THEN {{}}
    ELSE LET smaller == Trees(n - 1) IN
         smaller \cup
         UNION { UNION { { tree \cup {Node(Append(dir, name), type)} :
                             name \in {nm \in Names :
                                          \A e \in Entries(tree, dir) :
                                              basename(e.path) # nm},
                             type \in {"file", "dir"} }
                         : dir \in Directories(tree) }
                 : tree \in smaller }

\* the orders in which a directory listing can give a set of entries
Orders(S) ==
    {order \in [1..Cardinality(S) -> S] :
        \A i \in 1..Cardinality(S) : \A j \in 1..(i - 1) : order[i] # order[j]}

\* "if 'neosurf' in msg_name or 'netsurf' in msg_name" and not should_ignore
Collected(tree, dir, type) ==
    {n \in Entries(tree, dir) :
        /\ n.type = type
        /\ \/ Contains(lower(basename(n.path)), neosurf)
           \/ Contains(lower(basename(n.path)), netsurf)
        /\ ~should_ignore(n.path)}

\* os.walk(root_dir) with topdown=True yields a directory after its parent
ReadyToYield_topdown(tree, done, dir) ==
    dir = <<>> \/ dirname(dir) \in done

\* os.walk(root_dir, topdown=False) yields a directory after its
\* subdirectories
ReadyToYield(tree, done, dir) ==
    \A e \in Entries(tree, dir) : e.type = "dir" => e.path \in done

\* path is dir or lies under dir
IsUnder(path, dir) == Len(dir) <= Len(path) /\ SubSeq(path, 1, Len(dir)) = dir

\* os.rename(old_path, new_path), or git mv: the entry and, for a directory,
\* all that lies under it move to the new path
rename(tree, old_path, new_path) ==
    {IF IsUnder(n.path, old_path)
     THEN Node(new_path \o SubSeq(n.path, Len(old_path) + 1, Len(n.path)), n.type)
     ELSE n : n \in tree}

\* rename_files.py is not running
FilesIdle ==
    /\ files_pc = "idle"
    /\ dry_run = FALSE
    /\ filesystem = {}
    /\ walked = {}
    /\ to_rename = <<>>
    /\ renamed = 0

\* no helper script is running
ScriptsIdle == MessagesIdle /\ EolIdle /\ ProjectIdle /\ FilesIdle

-----------------------------------------------------------------------------
(* main()                                                                  *)

Untouched == [st |-> "untouched", content |-> <<>>]
Written(kind, c) == [st |-> "written", kind |-> kind, content |-> c]
\* open(path, 'w') has created or truncated the file, nothing was written
Opened == [st |-> "opened", content |-> <<>>]

\* A file the run has not looked at yet, and a file as the parser found it:
\* the run learns what a path holds when the parser tests and opens it.
Unread == [status |-> "unknown", read |-> FALSE, content |-> NoContent]
Read(status, content) == [status |-> status, read |-> TRUE, content |-> content]

\* css_prop_lookup was not called yet, and a call with its result
NoLookup == [called |-> FALSE, name |-> <<>>, handler |-> NULL]
Looked(name, handler) == [called |-> TRUE, name |-> name, handler |-> handler]

Init ==
    /\ argc \in {ExpectedArgc - 1, ExpectedArgc, ExpectedArgc + 1}
    /\ perfect_hash_ok = "unknown"
    /\ dispatch_file = Unread
    /\ gen_file = Unread
    /\ keywords_file = Unread
    /\ pc = "start"
    /\ dispatch_order = <<>>
    /\ prop_map = EmptyPropMap
    /\ keywords = <<>>
    /\ warnings = 0
    /\ fatal = "none"
    /\ fatal_prop = <<>>
    /\ exit_code = -1
    /\ enum_out = Untouched
    /\ dispatch_out = Untouched
    /\ propstrings_out = Untouched
    /\ propstrings_strings_out = Untouched
    /\ hash_table_out = Untouched
    /\ hasher = NewHasher(<<>>)
    /\ lookup = NoLookup
    /\ second_run = NewHasher(<<>>)
    /\ ScriptsIdle

\* a fatal error that prints its message and ends the run with status 0
Die_with_status_0(message, prop) ==
    /\ pc' = "exit"
    /\ exit_code' = 0
    /\ fatal' = message
    /\ fatal_prop' = prop

\* print(..., file=sys.stderr); sys.exit(1)
Die(message, prop) ==
    /\ pc' = "exit"
    /\ exit_code' = 1
    /\ fatal' = message
    /\ fatal_prop' = prop

Continue(next) ==
    /\ pc' = next
    /\ UNCHANGED <<exit_code, fatal, fatal_prop>>

\* the check of the argument count as "if len(sys.argv) > 9"
CheckArgs_only_too_many ==
    /\ pc = "start"
    /\ IF argc > ExpectedArgc THEN Die("usage", <<>>) ELSE Continue("parse_dispatch")
    /\ UNCHANGED <<inputs, dispatch_order, prop_map, keywords, warnings, outputs>>
    /\ UNCHANGED hashvars
    /\ UNCHANGED scriptvars

\* if len(sys.argv) != 9: usage, exit 1
CheckArgs ==
    /\ pc = "start"
    /\ IF argc # ExpectedArgc THEN Die("usage", <<>>) ELSE Continue("parse_dispatch")
    /\ UNCHANGED <<inputs, dispatch_order, prop_map, keywords, warnings, outputs>>
    /\ UNCHANGED hashvars
    /\ UNCHANGED scriptvars

\* dispatch_order = DispatchParser(dispatch_file).parse()
ParseDispatch ==
    /\ pc = "parse_dispatch"
    /\ \E status \in FileStatus :
       \E content \in IF status = "ok" THEN DispatchContents ELSE {NoContent} :
       \E r \in {DispatchParse(status, content)} :
          /\ dispatch_file' = Read(status, content)
          /\ dispatch_order' = r.properties
          /\ IF r.fatal # "none" THEN Die(r.fatal, <<>>) ELSE Continue("parse_gen")
    /\ UNCHANGED <<argc, perfect_hash_ok, gen_file, keywords_file, prop_map,
                   keywords, warnings, outputs>>
    /\ UNCHANGED hashvars
    /\ UNCHANGED scriptvars

\* prop_metadata = PropertyGenParser(gen_file).parse()
ParseGen ==
    /\ pc = "parse_gen"
    /\ \E status \in FileStatus :
       \E content \in IF status = "ok" THEN GenContents ELSE {NoContent} :
       \E r \in {GenParse(status, content)} :
          /\ gen_file' = Read(status, content)
          /\ prop_map' = r.prop_map
          /\ warnings' = warnings + r.warnings
          /\ IF r.fatal # "none" THEN Die(r.fatal, <<>>) ELSE Continue("parse_keywords")
    /\ UNCHANGED <<argc, perfect_hash_ok, dispatch_file, keywords_file,
                   dispatch_order, keywords, outputs>>
    /\ UNCHANGED hashvars
    /\ UNCHANGED scriptvars

\* keywords = KeywordsParser(keywords_file).parse()
ParseKeywords ==
    /\ pc = "parse_keywords"
    /\ \E status \in FileStatus :
       \E content \in IF status = "ok" THEN KeywordContents ELSE {NoContent} :
       \E r \in {KeywordsParse(status, content)} :
          /\ keywords_file' = Read(status, content)
          /\ keywords' = r.keywords
          /\ warnings' = warnings + r.warnings
          /\ IF r.fatal # "none" THEN Die(r.fatal, <<>>) ELSE Continue("validate")
    /\ UNCHANGED <<argc, perfect_hash_ok, dispatch_file, gen_file,
                   dispatch_order, prop_map, outputs>>
    /\ UNCHANGED hashvars
    /\ UNCHANGED scriptvars

\* generator.validate_indexes()
Validate ==
    /\ pc = "validate"
    /\ \E r \in {validate_indexes(dispatch_order, prop_map)} :
          IF r.fatal # "none" THEN Die(r.fatal, r.prop) ELSE Continue("write_enum")
    /\ UNCHANGED <<inputs, dispatch_order, prop_map, keywords, warnings, outputs>>
    /\ UNCHANGED hashvars
    /\ UNCHANGED scriptvars

\* generator = MultiFileGenerator(dispatch_order, prop_metadata, keywords)
generator == MultiFileGenerator(dispatch_order, prop_map, keywords)

\* with open(enum_out, 'w') as f: f.write(generator.generate_enum())
WriteEnum ==
    /\ pc = "write_enum"
    /\ enum_out' = Written("ENUM", Artifacts(generator).enum)
    /\ Continue("write_dispatch")
    /\ UNCHANGED <<inputs, dispatch_order, prop_map, keywords, warnings,
                   dispatch_out, propstrings_out, propstrings_strings_out,
                   hash_table_out>>
    /\ UNCHANGED hashvars
    /\ UNCHANGED scriptvars

\* with open(dispatch_out, 'w') as f: f.write(generator.generate_dispatch())
WriteDispatch ==
    /\ pc = "write_dispatch"
    /\ dispatch_out' = Written("DISPATCH", Artifacts(generator).dispatch)
    /\ Continue("write_propstrings")
    /\ UNCHANGED <<inputs, dispatch_order, prop_map, keywords, warnings,
                   enum_out, propstrings_out, propstrings_strings_out,
                   hash_table_out>>
    /\ UNCHANGED hashvars
    /\ UNCHANGED scriptvars

\* with open(propstrings_out, 'w') as f: f.write(generator.generate_propstrings())
WritePropstrings ==
    /\ pc = "write_propstrings"
    /\ propstrings_out' =
          Written("PROPSTRINGS", Artifacts(generator).propstrings)
    /\ Continue("write_propstrings_strings")
    /\ UNCHANGED <<inputs, dispatch_order, prop_map, keywords, warnings,
                   enum_out, dispatch_out, propstrings_strings_out,
                   hash_table_out>>
    /\ UNCHANGED hashvars
    /\ UNCHANGED scriptvars

\* with open(propstrings_strings_out, 'w') as f:
\*     f.write(generator.generate_propstrings_strings())
WritePropstringsStrings ==
    /\ pc = "write_propstrings_strings"
    /\ propstrings_strings_out' =
          Written("PROPSTRINGS_STRINGS", Artifacts(generator).propstrings_strings)
    /\ Continue("write_hash_table")
    /\ UNCHANGED <<inputs, dispatch_order, prop_map, keywords, warnings,
                   enum_out, dispatch_out, propstrings_out, hash_table_out>>
    /\ UNCHANGED hashvars
    /\ UNCHANGED scriptvars

\* with open(hash_table_out, 'w') as f: f.write(generator.generate_hash_table())
\* The file is opened first.  hasher.build() then ends the run when
\* perfect_hash cannot be imported (sys.exit(1)) or when generate_hash raises
\* (an uncaught exception: status 1); otherwise the fragment is written.  The
\* G, S1, S2 and slot tables of the fragment are modelled in HashSpec.
WriteHashTable ==
    /\ pc = "write_hash_table"
    /\ \E outcome \in {"import_error", "generate_hash_raised", "built"} :
          /\ perfect_hash_ok' = IF outcome = "import_error" THEN "missing" ELSE "installed"
          /\ IF outcome = "built"
             THEN /\ hash_table_out' =
                        Written("HASH_TABLE", Artifacts(generator).hash_keys)
                  /\ pc' = "exit"
                  /\ exit_code' = 0
                  /\ UNCHANGED <<fatal, fatal_prop>>
             ELSE /\ hash_table_out' = Opened
                  /\ Die(outcome, <<>>)
    /\ UNCHANGED <<argc, dispatch_file, gen_file, keywords_file, dispatch_order,
                   prop_map, keywords, warnings, enum_out, dispatch_out,
                   propstrings_out, propstrings_strings_out>>
    /\ UNCHANGED hashvars
    /\ UNCHANGED scriptvars

Next ==
    \/ CheckArgs
    \/ ParseDispatch
    \/ ParseGen
    \/ ParseKeywords
    \/ Validate
    \/ WriteEnum
    \/ WriteDispatch
    \/ WritePropstrings
    \/ WritePropstringsStrings
    \/ WriteHashTable

Spec == Init /\ [][Next]_vars

\* the statements of main() a run can be at
Statements ==
    {"start", "parse_dispatch", "parse_gen", "parse_keywords", "validate",
     "write_enum", "write_dispatch", "write_propstrings",
     "write_propstrings_strings", "write_hash_table", "exit"}

\* main() is one sequential process: while it has not exited it runs its next
\* statement to the end.  Every step of Next moves pc and Next is enabled
\* wherever pc is not "exit", so this is weak fairness of Next, stated on pc.
Advance == pc # "exit" /\ pc' \in Statements /\ pc' # pc

FairSpec == Spec /\ WF_pc(Advance)

-----------------------------------------------------------------------------
(* The claims about main(), checked under Spec.                            *)

\* C1: a run that ends in a fatal error, at whatever stage, has created,
\* truncated or written none of the five output files.
C1_NoOutputOnFatalError ==
    (pc = "exit" /\ exit_code = 1) => \A i \in 1..Len(outputs) : outputs[i] = Untouched

\* a name on two entries of the canonical source that the pattern matches
CanonicalNameTwice ==
    \E matches \in {FindAll(dispatch_file.content.items)} :
        \E i \in 1..Len(matches) : \E j \in 1..(i - 1) :
            matches[i].name = matches[j].name

\* a name on two lines of the metadata source that are both stored
MetadataNameTwice ==
    \E i \in 1..Len(gen_file.content.lines) : \E j \in 1..(i - 1) :
        /\ gen_file.content.lines[i].name = gen_file.content.lines[j].name
        /\ LineStatus(gen_file.content.lines[i]) = "stored"
        /\ LineStatus(gen_file.content.lines[j]) = "stored"

\* C2: a run over inputs that hold a name twice, in the canonical source or on
\* two lines of the metadata source, and that meets no other fatal error, ends
\* with the duplicate-identifier error naming a duplicated property, with exit
\* code 1 and with no output file written.
C2_DuplicateNameIsFatal ==
    (/\ pc = "exit"
     /\ fatal \in {"none", "duplicate_property"}
     /\ CanonicalNameTwice \/ MetadataNameTwice)
    => /\ fatal = "duplicate_property"
       /\ exit_code = 1
       /\ \A i \in 1..Len(outputs) : outputs[i] = Untouched

\* the number a hexadecimal digit stands for, and the number "0x..." stands for
HexDigitValue(c) == IF IsDigit(c) THEN c - 48 ELSE c - 87
RECURSIVE HexNumber(_, _)
HexNumber(ds, n) ==
    IF n = 0 THEN 0 ELSE 16 * HexNumber(ds, n - 1) + HexDigitValue(ds[n])
ParseHex(text) == HexNumber(SubSeq(text, 3, Len(text)), Len(text) - 2)

\* the positions (1-based) of the canonical records that have a metadata entry
CanonicalWithMetadata ==
    SelectSeq(List([i \in 1..Len(dispatch_order) |-> i]),
              LAMBDA i : dispatch_order[i].name \in DOMAIN prop_map.meta)

\* C3: the enum fragment holds one entry for each canonical record that has a
\* metadata entry, in canonical order, and the value of an entry is the
\* zero-based position of its record in the canonical source: the values
\* increase strictly and the positions without metadata are missing.
C3_EnumValueIsCanonicalPosition ==
    enum_out.st = "written" =>
        \A at \in {CanonicalWithMetadata} :
            /\ Len(enum_out.content) = Len(at)
            /\ \A k \in 1..Len(at) :
                  /\ ParseHex(enum_out.content[k].hex_val) = at[k] - 1
                  /\ enum_out.content[k].enum_name
                        = prop_map.meta[dispatch_order[at[k]].name].enum
                  /\ k > 1 => ParseHex(enum_out.content[k - 1].hex_val)
                                 < ParseHex(enum_out.content[k].hex_val)

\* an enum fragment was written whose first entry follows a canonical record
\* without metadata, so its value is not 0
C3_Witness ==
    /\ enum_out.st = "written"
    /\ Len(enum_out.content) > 1
    /\ ParseHex(enum_out.content[1].hex_val) > 0

\* C4: the dispatch fragment holds one row for each canonical record that has
\* a metadata entry, in canonical order, and the inherited flag of a row is
\* the flag the canonical source gives for that name.
C4_DispatchFlagIsCanonical ==
    dispatch_out.st = "written" =>
        \A rows \in {SelectSeq(FindAll(dispatch_file.content.items),
                               LAMBDA it : it.name \in DOMAIN prop_map.meta)} :
            /\ Len(dispatch_out.content) = Len(rows)
            /\ \A k \in 1..Len(rows) :
                  /\ dispatch_out.content[k].prop_name = rows[k].name
                  /\ \/ rows[k].flag = <<49>> /\ dispatch_out.content[k].inherited = 1
                     \/ rows[k].flag = <<48>> /\ dispatch_out.content[k].inherited = 0

\* a dispatch fragment was written that holds an inherited property and one
\* that is not inherited
C4_Witness ==
    /\ dispatch_out.st = "written"
    /\ \E k \in 1..Len(dispatch_out.content) : dispatch_out.content[k].inherited = 1
    /\ \E k \in 1..Len(dispatch_out.content) : dispatch_out.content[k].inherited = 0

\* the hyphenated spelling of an enum identifier: lower case, '_' as '-'
HyphenatedSpelling(identifier) == hyphenated(lower(identifier))

\* C5: the identifiers of the string-table enum fragment are in strictly
\* increasing byte-wise order of their hyphenated spelling.
C5_PropstringsInHyphenatedOrder ==
    propstrings_out.st = "written" =>
        \A i \in 1..(Len(propstrings_out.content.entries) - 1) :
            StrLess(HyphenatedSpelling(propstrings_out.content.entries[i].identifier),
                    HyphenatedSpelling(propstrings_out.content.entries[i + 1].identifier))

\* the enum identifier of an SMAP literal: '-' as '_', upper case
EnumSpelling(literal) ==
    upper([i \in 1..Len(literal) |-> IF literal[i] = 45 THEN 95 ELSE literal[i]])

\* C6: the string-table enum fragment and the string-map fragment list the
\* same properties in the same order: the i-th identifier is the upper-case
\* underscore form of the i-th SMAP literal.
C6_EnumAndStringMapAgree ==
    propstrings_strings_out.st = "written" =>
        /\ Len(propstrings_out.content.entries) = Len(propstrings_strings_out.content)
        /\ \A i \in 1..Len(propstrings_strings_out.content) :
              propstrings_out.content.entries[i].identifier
                 = EnumSpelling(propstrings_strings_out.content[i])

\* the combined identifier set: the canonical names and the names of the
\* metadata records that are shorthands or aliases
CombinedIdentifierSet ==
    {dispatch_order[i].name : i \in 1..Len(dispatch_order)}
    \cup {n \in DOMAIN prop_map.meta :
             prop_map.meta[n].is_shorthand \/ prop_map.meta[n].is_alias}

C8_OpcodeMapProduced ==
    (pc = "exit" /\ exit_code = 0) =>
        \E i \in 1..Len(outputs) :
            /\ outputs[i].st = "written"
            /\ outputs[i].kind = "OPCODE_MAP"
            /\ Len(outputs[i].content) = Len(propstrings_strings_out.content)

-----------------------------------------------------------------------------
(* HashSpec: PerfectHashGenerator.build and css_prop_lookup over small     *)
(* tables.                                                                 *)

\* the largest number of properties of a table
MaxHashNames == 2
\* the longest name whose upper and lower case variants are all looked up
MaxVariantLen == 3

\* a name as long as the buffer of css_prop_lookup, and one as long as a
\* uint8_t counts plus one
LongName == [i \in 1..LowerSize |-> 97]
WrapName == [i \in 1..(Uint8Range + 1) |-> 97]

\* a, ab, a_b and the two long names
HashNames == <<<<97>>, <<97, 98>>, <<97, 95, 98>>, LongName, WrapName>>

\* the canonical orders of at most MaxHashNames of these properties
HashOrders ==
    {[i \in 1..Len(names) |-> [name |-> names[i], inherited |-> FALSE]] :
        names \in {SelectSeq(HashNames, LAMBDA n : n \in picked) :
                     picked \in {P \in SUBSET Range(HashNames) :
                                   Cardinality(P) \in 1..MaxHashNames}}}

\* the name with the letters at the places U in upper case
UpperAt(name, U) ==
    [i \in 1..Len(name) |->
        IF i \in U /\ IsLowerLetter(name[i]) THEN name[i] - 32 ELSE name[i]]

CaseVariants(name) ==
    IF Len(name) <= MaxVariantLen
    THEN {UpperAt(name, U) : U \in SUBSET (1..Len(name))}
    ELSE {name, UpperAt(name, 1..Len(name))}

\* the strings css_prop_lookup is called with: the keys in every case, and
\* a, b, ac, a-c and the empty string
Queries(keys) ==
    UNION {CaseVariants(keys[i].css_name) : i \in 1..Len(keys)}
    \cup {<<>>, <<97>>, <<98>>, <<97, 99>>, <<97, 45, 99>>}

\* The salts f1 and f2 of the library are random; the model draws each from
\* two salts, long enough for the longest key.
Salts(L, NG) == {List([i \in 1..L |-> 1 + ((seed + i) % NG)]) : seed \in {0, 1}}

\* The default salt class of the library, StrSaltHash, keeps its salt as a
\* string of letters and digits and multiplies the code of each character;
\* the model draws each such salt from a string of ones and a string of a's.
StrSalts(L) == {List([i \in 1..L |-> c]) : c \in {49, 97}}

\* what stands in the emitted array for an entry that is no C constant
NotAConstant == -1

\* the entries of 'static const unsigned char S[]' as the compiler reads the
\* emitted text f"{salt[j]}": an integer of the salt is its decimal numeral,
\* cut to 8 bits; a character of a string salt is the character itself, the
\* numeral of its digit or a name that is declared nowhere
EmittedSalt(str, salt) ==
    [j \in 1..Len(salt) |->
        IF ~str THEN salt[j] % Uint8Range
        ELSE IF IsDigit(salt[j]) THEN salt[j] - 48
        ELSE NotAConstant]

LongestKey(keys) ==
    Only({n \in {Len(keys[i].key) : i \in 1..Len(keys)} :
            \A i \in 1..Len(keys) : Len(keys[i].key) <= n})

HashInit ==
    /\ argc = ExpectedArgc
    /\ perfect_hash_ok = "installed"
    /\ dispatch_file = Unread
    /\ gen_file = Unread
    /\ keywords_file = Unread
    /\ pc = "build"
    /\ dispatch_order \in HashOrders
    /\ prop_map = EmptyPropMap
    /\ keywords = <<>>
    /\ warnings = 0
    /\ fatal = "none"
    /\ fatal_prop = <<>>
    /\ exit_code = -1
    /\ enum_out = Untouched
    /\ dispatch_out = Untouched
    /\ propstrings_out = Untouched
    /\ propstrings_strings_out = Untouched
    /\ hash_table_out = Untouched
    /\ hasher = NewHasher(hash_keys(dispatch_order, prop_map))
    /\ lookup = NoLookup
    /\ second_run = NewHasher(<<>>)
    /\ ScriptsIdle

\* hasher.build() over the f1, f2 and G that perfect_hash.generate_hash
\* returns: the loop stores every key tuple under its slot,
\* self.hash_table[slot] = key_data, a later key replacing an earlier one of
\* the same slot.  With perfect, generate_hash keeps its contract: the slot
\* (G[f1(key)] + G[f2(key)]) % len(G) of every key is a slot of its own.
\* With again, the build is that of a second run of the generator over the
\* same keys, in a fresh process.  With str, the salts of f1 and f2 are
\* strings, else lists of integers.
BuildWith(perfect, again, str) ==
    /\ pc = IF again THEN "lookup" ELSE "build"
    /\ again => second_run.table_size = 0
    /\ \E NG \in {Len(hasher.keys) + 1} :
       \E salt1 \in IF str THEN StrSalts(LongestKey(hasher.keys))
                            ELSE Salts(LongestKey(hasher.keys), NG) :
       \E salt2 \in IF str THEN StrSalts(LongestKey(hasher.keys))
                            ELSE Salts(LongestKey(hasher.keys), NG) :
       \E f \in {List([i \in 1..Len(hasher.keys) |->
                        <<SaltHash(salt1, hasher.keys[i].key, NG),
                          SaltHash(salt2, hasher.keys[i].key, NG)>>])} :
       \E g \in [0..(NG - 1) -> 0..(NG - 1)] :
       \E slot \in {List([i \in 1..Len(f) |-> (g[f[i][1]] + g[f[i][2]]) % NG])} :
       \E built \in {[NewHasher(hasher.keys) EXCEPT
                        !.G = g, !.S1 = List(EmittedSalt(str, salt1)),
                        !.S2 = List(EmittedSalt(str, salt2)), !.table_size = NG,
                        !.hash_table =
                            [x \in {slot[i] : i \in 1..Len(slot)} |->
                                hasher.keys[CHOOSE i \in 1..Len(slot) :
                                               /\ slot[i] = x
                                               /\ \A j \in (i + 1)..Len(slot) :
                                                     slot[j] # x]]]} :
          /\ perfect => \A i \in 1..Len(slot) : \A j \in 1..(i - 1) : slot[i] # slot[j]
          /\ IF again THEN second_run' = built /\ UNCHANGED hasher
                      ELSE hasher' = built /\ UNCHANGED second_run
    /\ pc' = "lookup"
    /\ UNCHANGED <<inputs, dispatch_order, prop_map, keywords, warnings, fatal,
                   fatal_prop, exit_code, outputs, lookup>>
    /\ UNCHANGED scriptvars

\* hasher.build() over integer salts
BuildFrom(perfect, again) == BuildWith(perfect, again, FALSE)

\* hasher.build() with a library that keeps its contract
HashBuild == BuildFrom(TRUE, FALSE)

\* hasher.build() with whatever functions the library hands over: build()
\* itself looks at the slots only to store the keys
HashBuildUnverified == BuildFrom(FALSE, FALSE)

\* hasher.build() of a second run of the generator over the same inputs
HashRebuild == BuildFrom(TRUE, TRUE)

\* a call css_prop_lookup(name, len) of the compiled fragment
Lookup ==
    /\ pc = "lookup"
    /\ \E name \in Queries(hasher.keys) :
          lookup' = Looked(name, css_prop_lookup(hasher, name))
    /\ UNCHANGED <<inputs, pc, dispatch_order, prop_map, keywords, warnings, fatal,
                   fatal_prop, exit_code, outputs, hasher, second_run>>
    /\ UNCHANGED scriptvars

HashNext ==
    \/ HashBuild
    \/ Lookup

HashSpec == HashInit /\ [][HashNext]_vars

HashUnverifiedNext ==
    \/ HashBuildUnverified
    \/ Lookup

\* build() and the lookup over the functions of any library
HashUnverifiedSpec == HashInit /\ [][HashUnverifiedNext]_vars

HashRerunNext ==
    \/ HashBuild
    \/ HashRebuild

\* build() in two runs of the generator over the same keys
HashRerunSpec == HashInit /\ [][HashRerunNext]_vars

\* hasher.build() with a library that keeps its contract, over the salts of
\* either class of the library
HashBuildAnySalt == \E str \in BOOLEAN : BuildWith(TRUE, FALSE, str)

HashEmitNext ==
    \/ HashBuildAnySalt
    \/ Lookup

\* build() and the emitted fragment over integer and string salts
HashEmitSpec == HashInit /\ [][HashEmitNext]_vars

-----------------------------------------------------------------------------
(* The claims about the emitted lookup, checked under HashSpec.            *)

\* C9: a lookup of a name of the table, in any mix of upper and lower case of
\* its hyphenated spelling, returns the handler of exactly that name.
C9_LookupFindsEveryKey ==
    lookup.called =>
        \A i \in 1..Len(hasher.keys) :
            lower(lookup.name) = hasher.keys[i].key
               => lookup.handler = hasher.keys[i].handler

\* C10: a lookup of a string whose case-folded form is no key of the table
\* returns not-found.
C10_LookupRejectsEveryNonKey ==
    (/\ lookup.called
     /\ \A i \in 1..Len(hasher.keys) : lower(lookup.name) # hasher.keys[i].key)
    => lookup.handler = NULL

-----------------------------------------------------------------------------
(* The claims about build(), checked under HashUnverifiedSpec.             *)

-----------------------------------------------------------------------------
(* The claims about two runs, checked under HashRerunSpec.                 *)

\* C12: two runs over the same inputs emit the same hash-table fragment: the
\* same G, S1 and S2 arrays and the same slot table.
C12_SecondRunBuildsTheSameTables ==
    second_run.table_size > 0 =>
        /\ second_run.G = hasher.G
        /\ second_run.S1 = hasher.S1
        /\ second_run.S2 = hasher.S2
        /\ second_run.hash_table = hasher.hash_table

-----------------------------------------------------------------------------
(* The claims about the emitted tables, checked under HashEmitSpec.        *)

\* the slot under which build() stored the key tuple
StoredSlot(h, i) == Only({slot \in DOMAIN h.hash_table : h.hash_table[slot] = h.keys[i]})

\* every entry of the emitted S1 and S2 is a constant a C compiler accepts
SaltsCompile(h) ==
    /\ \A j \in 1..Len(h.S1) : h.S1[j] # NotAConstant
    /\ \A j \in 1..Len(h.S2) : h.S2[j] # NotAConstant

\* C26: for every key of the table, the emitted css_prop_hash, over the
\* emitted S1, S2 and G, computes the slot under which build() stored the
\* key, and that slot is below CSS_PROP_HASH_TABLE_SIZE.
C26_EmittedHashComputesTheStoredSlot ==
    pc = "lookup" =>
        /\ SaltsCompile(hasher)
        /\ \A i \in 1..Len(hasher.keys) :
              /\ css_prop_hash(hasher, hasher.keys[i].key) = StoredSlot(hasher, i)
              /\ StoredSlot(hasher, i) < hasher.table_size

\* the same over the integer salts alone (HashSpec)
C26_IntegerSaltsGiveTheStoredSlot ==
    pc = "lookup" =>
        \A i \in 1..Len(hasher.keys) :
            /\ css_prop_hash(hasher, hasher.keys[i].key) = StoredSlot(hasher, i)
            /\ StoredSlot(hasher, i) < hasher.table_size

\* the lengths of the names of the emitted slot table
StoredLengths(h) == {Len(h.hash_table[slot].css_name) : slot \in DOMAIN h.hash_table}

\* C27: a lookup of a name that does not fit the 64-byte buffer with its
\* closing zero returns not-found, and every name of the slot table fits
\* that buffer and the 8-bit name_len.
C27_LongNamesAreNeitherLookedUpNorStored ==
    /\ (lookup.called /\ Len(lookup.name) >= LowerSize) => lookup.handler = NULL
    /\ pc = "lookup" =>
          \A n \in StoredLengths(hasher) : n < LowerSize /\ n < Uint8Range

\* the half of C27 about the lookup alone
C27_LongQueryIsNotFound ==
    (lookup.called /\ Len(lookup.name) >= LowerSize) => lookup.handler = NULL

-----------------------------------------------------------------------------
(* Further claims about main(), checked under Spec.                        *)

\* the names the metadata source marks as generic
GenericExcluded ==
    {gen_file.content.lines[i].name : i \in
        {j \in 1..Len(gen_file.content.lines) :
            LineStatus(gen_file.content.lines[j]) = "generic"}}

\* C13: after a successful run the names of the alphabetical table (the
\* string table, the string map and the hash keys) are the canonical names
\* and the names of the shorthand and alias records of the metadata, without
\* the names the metadata marks as generic, each name once.
C13_TableIsCombinedSetWithoutGeneric ==
    (pc = "exit" /\ exit_code = 0) =>
        \A expected \in {CombinedIdentifierSet \ GenericExcluded} :
            /\ {propstrings_strings_out.content[i] :
                   i \in 1..Len(propstrings_strings_out.content)}
                  = {hyphenated(n) : n \in expected}
            /\ {hash_table_out.content[i].key : i \in 1..Len(hash_table_out.content)}
                  = {hyphenated(n) : n \in expected}
            /\ {propstrings_out.content.entries[i].identifier :
                   i \in 1..Len(propstrings_out.content.entries)}
                  = {upper(n) : n \in expected}
            /\ Len(propstrings_strings_out.content) = Cardinality(expected)
            /\ Len(hash_table_out.content) = Cardinality(expected)
            /\ Len(propstrings_out.content.entries) = Cardinality(expected)

\* C14: after a successful run every stored metadata record whose name is not
\* in the canonical source has its name in the alphabetical table and among
\* the hash keys.
C14_MetadataOnlyNameIsKept ==
    (pc = "exit" /\ exit_code = 0) =>
        \A n \in DOMAIN prop_map.meta :
            n \notin {dispatch_order[i].name : i \in 1..Len(dispatch_order)}
            => /\ \E i \in 1..Len(propstrings_strings_out.content) :
                     propstrings_strings_out.content[i] = hyphenated(n)
               /\ \E i \in 1..Len(hash_table_out.content) :
                     hash_table_out.content[i].key = hyphenated(n)

\* the run stopped in DispatchParser.parse: exit code 1, the metadata and the
\* keyword source not opened, no output file touched
StoppedInDispatchParser ==
    /\ pc = "exit"
    /\ exit_code = 1
    /\ ~gen_file.read
    /\ ~keywords_file.read
    /\ \A i \in 1..Len(outputs) : outputs[i] = Untouched

\* the canonical source was read and holds the marker of the table
CanonicalSourceParsed ==
    dispatch_file.read /\ dispatch_file.status = "ok" /\ dispatch_file.content.marker

\* the entries of the canonical source with a name and a flag of 0 or 1
CanonicalValidEntries ==
    SelectSeq(dispatch_file.content.items,
              LAMBDA it : IsPropName(it.name) /\ it.flag \in {<<48>>, <<49>>})

NonBooleanFlagEntries ==
    {i \in 1..Len(dispatch_file.content.items) :
        dispatch_file.content.items[i].flag \notin {<<48>>, <<49>>}}

\* C16: a canonical source with an entry whose flag is neither 0 nor 1 stops
\* the run in DispatchParser.parse with exit code 1, by the invalid-flag error
\* unless the count of entries stopped it first; the entry is never skipped.
C16_NonBooleanFlagIsFatal ==
    (CanonicalSourceParsed /\ NonBooleanFlagEntries # {})
    => /\ StoppedInDispatchParser
       /\ fatal \in {"invalid_flag", "too_few_properties", "no_entries"}

\* the lines of the metadata source that are neither blank nor comments and
\* do not have the shape name:SYMBOL spec
MalformedGenLines ==
    {i \in 1..Len(gen_file.content.lines) :
        /\ gen_file.content.lines[i].kind = "text"
        /\ ~GenLineMatches(gen_file.content.lines[i])}

\* the lines of the keyword source that are neither blank nor comments and
\* are no keyword
MalformedKeywordLines ==
    {i \in 1..Len(keywords_file.content.lines) :
        /\ keywords_file.content.lines[i] # <<>>
        /\ keywords_file.content.lines[i][1] # 35
        /\ ~IsKeyword(keywords_file.content.lines[i])}

\* C17: one warning was printed for every malformed line of the metadata
\* source and of the keyword source that the run has read.
C17_MalformedLineIsWarned ==
    (gen_file.read /\ gen_file.status = "ok")
    => warnings = Cardinality(MalformedGenLines)
                  + IF keywords_file.read /\ keywords_file.status = "ok"
                    THEN Cardinality(MalformedKeywordLines) ELSE 0

\* the fatal errors for an input file that is missing or cannot be read
MissingInput ==
    {"dispatch_not_found", "dispatch_unreadable", "gen_not_found",
     "gen_unreadable", "keywords_not_found", "keywords_unreadable"}

\* C18: when the run stops because an input file is missing or unreadable, no
\* input source has been parsed.
C18_MissingInputBeforeAnyParsing ==
    fatal \in MissingInput
    => /\ dispatch_file.status # "ok"
       /\ gen_file.status # "ok"
       /\ keywords_file.status # "ok"
       /\ dispatch_order = <<>>
       /\ prop_map = EmptyPropMap

\* C19: a run started with a number of positional arguments other than 8
\* (len(sys.argv) other than 9) reads no input and touches no output file, and
\* once it has checked the count it has stopped with the usage error and exit
\* code 1.
C19_WrongArgumentCountIsUsageError ==
    argc # ExpectedArgc
    => /\ ~dispatch_file.read /\ ~gen_file.read /\ ~keywords_file.read
       /\ \A i \in 1..Len(outputs) : outputs[i] = Untouched
       /\ pc # "start" => (pc = "exit" /\ exit_code = 1 /\ fatal = "usage")

C19_Witness ==
    argc = ExpectedArgc - 1 /\ pc = "exit" /\ exit_code = 1 /\ fatal = "usage"

\* the run has ended with exit code 0 after every stage succeeded: the three
\* sources were read, no fatal error was raised, perfect_hash was imported
\* and the five files were written
SucceededInFull ==
    /\ fatal = "none"
    /\ dispatch_file.read /\ dispatch_file.status = "ok"
    /\ gen_file.read /\ gen_file.status = "ok"
    /\ keywords_file.read /\ keywords_file.status = "ok"
    /\ validate_indexes(dispatch_order, prop_map).fatal = "none"
    /\ perfect_hash_ok = "installed"
    /\ \A i \in 1..Len(outputs) : outputs[i].st = "written"

\* C20: every run ends; it ends with exit code 0 only after load, validation
\* and hash construction succeeded and the five files were written; and a run
\* that met a fatal condition has ended with exit code 1.
C20_EveryRunEndsWithItsExitCode ==
    /\ <>(pc = "exit")
    /\ [](exit_code \in {-1, 0, 1})
    /\ []((pc = "exit") <=> (exit_code # -1))
    /\ [](exit_code = 0 => SucceededInFull)
    /\ [](fatal # "none" => (pc = "exit" /\ exit_code = 1))

C20_Witness ==
    pc = "exit" /\ exit_code = 0 /\ SucceededInFull

\* the symbol with the namespace prefix CSS_PROP_ stripped, in lower case
\* C29: the value of every entry of the enum fragment is the zero-based
\* number of the row the dispatch fragment holds for the same property: the
\* k-th entry and the k-th row are those of the same canonical record, and
\* the value of the k-th entry is k - 1.
C29_EnumValueIsDispatchRowNumber ==
    (enum_out.st = "written" /\ dispatch_out.st = "written") =>
        /\ Len(enum_out.content) = Len(dispatch_out.content)
        /\ \A k \in 1..Len(enum_out.content) :
              /\ enum_out.content[k].enum_name
                    = prop_map.meta[dispatch_out.content[k].prop_name].enum
              /\ ParseHex(enum_out.content[k].hex_val) = k - 1

\* the half of C29 that pairs the entries with the rows
C29_EntriesAndRowsPairUp ==
    (enum_out.st = "written" /\ dispatch_out.st = "written") =>
        /\ Len(enum_out.content) = Len(dispatch_out.content)
        /\ \A k \in 1..Len(enum_out.content) :
              enum_out.content[k].enum_name
                 = prop_map.meta[dispatch_out.content[k].prop_name].enum

\* the keyword lists of the keyword sources that pass KeywordsParser.parse
ValidKeywordLists ==
    {KeywordsParse("ok", content).keywords :
        content \in {c \in KeywordContents : KeywordsParse("ok", c).fatal = "none"}}

\* what the run has written
WrittenArtifacts ==
    [enum |-> enum_out.content,
     dispatch |-> dispatch_out.content,
     propstrings |-> propstrings_out.content,
     propstrings_strings |-> propstrings_strings_out.content,
     hash_keys |-> hash_table_out.content]

SymbolBase(symbol) ==
    lower(IF MatchAt(symbol, CSS_PROP_, 1)
          THEN SubSeq(symbol, Len(CSS_PROP_) + 1, Len(symbol)) ELSE symbol)

\* C25: a stored metadata record is an alias exactly when its specification
\* text is not SHORTHAND, holds no WRAP:, is not MANUAL and holds no GENERIC,
\* and its name differs from the base of its symbol; a record whose text is
\* MANUAL is neither alias nor shorthand; no record is both.
C25_AliasClassification ==
    (gen_file.read /\ gen_file.status = "ok") =>
        \A name \in DOMAIN prop_map.meta :
            \E record \in {prop_map.meta[name]} :
            \E line \in {gen_file.content.lines[record.line]} :
                /\ record.is_alias <=>
                      /\ line.spec # SHORTHAND
                      /\ ~Contains(line.spec, WRAP)
                      /\ line.spec # MANUAL
                      /\ ~Contains(line.spec, GENERIC)
                      /\ name # SymbolBase(line.enum)
                /\ line.spec = MANUAL => (~record.is_alias /\ ~record.is_shorthand)
                /\ ~(record.is_shorthand /\ record.is_alias)

-----------------------------------------------------------------------------
(* The helper scripts.  property_generator.py is not running while one of  *)
(* them runs.                                                              *)

GeneratorIdle ==
    /\ argc = ExpectedArgc
    /\ perfect_hash_ok = "unknown"
    /\ dispatch_file = Unread
    /\ gen_file = Unread
    /\ keywords_file = Unread
    /\ pc = "idle"
    /\ dispatch_order = <<>>
    /\ prop_map = EmptyPropMap
    /\ keywords = <<>>
    /\ warnings = 0
    /\ fatal = "none"
    /\ fatal_prop = <<>>
    /\ exit_code = -1
    /\ enum_out = Untouched
    /\ dispatch_out = Untouched
    /\ propstrings_out = Untouched
    /\ propstrings_strings_out = Untouched
    /\ hash_table_out = Untouched
    /\ hasher = NewHasher(<<>>)
    /\ lookup = NoLookup
    /\ second_run = NewHasher(<<>>)

-----------------------------------------------------------------------------
(* split_messages.py: main()                                               *)

MessagesInit ==
    /\ GeneratorIdle
    /\ EolIdle
    /\ ProjectIdle
    /\ FilesIdle
    /\ messages_pc = "start"
    /\ fat_messages \in SeqsUpTo(MessageLines, MaxMessageLines)
    /\ target_lang \in {French, default_lang}
    /\ platforms \in PlatformArguments
    /\ data = EmptyData
    /\ messages_out = <<>>

\* if len(sys.argv) < 5: usage, sys.exit(1); platforms = sys.argv[4:];
\* if 'all' not in platforms: platforms.append('all')
MessagesMain ==
    /\ messages_pc = "start"
    /\ IF platforms = <<>>
       THEN messages_pc' = "usage" /\ UNCHANGED platforms
       ELSE /\ messages_pc' = "parse"
            /\ platforms' = IF \E i \in 1..Len(platforms) : platforms[i] = AllPlatforms
                            THEN platforms ELSE Append(platforms, AllPlatforms)
    /\ UNCHANGED <<fat_messages, target_lang, data, messages_out>>
    /\ UNCHANGED besides_messages

\* data = parse_fat_messages(fat_messages_path)
ParseFatMessages ==
    /\ messages_pc = "parse"
    /\ data' = parse_fat_messages(fat_messages, Len(fat_messages))
    /\ messages_pc' = "generate"
    /\ UNCHANGED <<fat_messages, target_lang, platforms, messages_out>>
    /\ UNCHANGED besides_messages

\* generate_messages(data, lang, platforms, output_path)
GenerateMessages ==
    /\ messages_pc = "generate"
    /\ messages_out' = List(generate_messages(data, target_lang, platforms))
    /\ messages_pc' = "exit"
    /\ UNCHANGED <<fat_messages, target_lang, platforms, data>>
    /\ UNCHANGED besides_messages

MessagesNext ==
    \/ MessagesMain
    \/ ParseFatMessages
    \/ GenerateMessages

MessagesSpec == MessagesInit /\ [][MessagesNext]_vars

\* the first platform of the priority list for which data holds a value of
\* the key in the language, 0 when there is none
FirstListedPlatform(key, lang) ==
    IF \E i \in 1..Len(platforms) : <<key, lang, platforms[i]>> \in DOMAIN data.value
    THEN CHOOSE i \in 1..Len(platforms) :
            /\ <<key, lang, platforms[i]>> \in DOMAIN data.value
            /\ \A j \in 1..(i - 1) : <<key, lang, platforms[j]>> \notin DOMAIN data.value
    ELSE 0

\* the language a key is written in: the target language when it has a value
\* for a listed platform, else 'en'
WrittenLanguage(key) ==
    IF FirstListedPlatform(key, target_lang) > 0 THEN target_lang ELSE default_lang

\* the keys of data that have a value to write, in the order of data
WrittenKeys ==
    SelectSeq(data.keys, LAMBDA key : FirstListedPlatform(key, WrittenLanguage(key)) > 0)

\* the keys of the first n lines of the file, each at its first appearance
RECURSIVE KeysByFirstAppearance(_)
KeysByFirstAppearance(n) ==
    IF n = 0 THEN <<>>
    ELSE LET before == KeysByFirstAppearance(n - 1)
             here == parse_fat_line(EmptyData, fat_messages[n]).keys
         IN IF here = <<>> \/ \E i \in 1..Len(before) : before[i] = here[1]
            THEN before ELSE Append(before, here[1])

\* C21: the output holds one line for each key of the catalogue that has a
\* value in the target language or in 'en' for a listed platform, in the
\* order of the keys' first appearance; the value is that of the target
\* language for the first listed platform that has one, and that of 'en' for
\* its first listed platform only when the target language has none.
C21_MessagesFollowLanguageAndPlatformPriority ==
    messages_pc = "exit" =>
        /\ Len(messages_out) = Len(WrittenKeys)
        /\ \A k \in 1..Len(WrittenKeys) :
             \E key \in {WrittenKeys[k]} : \E lang \in {WrittenLanguage(key)} :
                messages_out[k] =
                    key \o <<58>>
                        \o data.value[<<key, lang,
                                        platforms[FirstListedPlatform(key, lang)]>>]
                        \o <<10>>
        /\ data.keys = KeysByFirstAppearance(Len(fat_messages))

\* a run that wrote a key from the second platform of the target language,
\* wrote another from 'en' and left a third out
C21_Witness ==
    /\ messages_pc = "exit"
    /\ target_lang = French
    /\ Len(data.keys) = 3
    /\ Len(messages_out) = 2
    /\ \E k \in 1..2 :
          /\ WrittenLanguage(WrittenKeys[k]) = French
          /\ FirstListedPlatform(WrittenKeys[k], French) = 2
    /\ \E k \in 1..2 : WrittenLanguage(WrittenKeys[k]) = default_lang

-----------------------------------------------------------------------------
(* cmake_helper.py: convert_eol                                            *)

EolInit ==
    /\ GeneratorIdle
    /\ MessagesIdle
    /\ ProjectIdle
    /\ FilesIdle
    /\ eol_pc = "start"
    /\ \E bom \in {<<>>, BOM} : \E body \in SeqsUpTo(EolBytes, MaxEolLen) :
          eol_input = bom \o body
    /\ eol_output = <<>>

\* with open(input_path, 'rb') as f: content = f.read(); an exception prints
\* the error and ends the script with status 1
ReadEolInput ==
    /\ eol_pc = "start"
    /\ eol_pc' \in {"read", "error"}
    /\ UNCHANGED <<eol_input, eol_output>>
    /\ UNCHANGED besides_eol

\* the conversion, and f.write(content) to output_path
WriteEolOutput ==
    /\ eol_pc = "read"
    /\ eol_output' = convert_eol(eol_input)
    /\ eol_pc' = "done"
    /\ UNCHANGED eol_input
    /\ UNCHANGED besides_eol

EolNext ==
    \/ ReadEolInput
    \/ WriteEolOutput

EolSpec == EolInit /\ [][EolNext]_vars

\* C22: the output of convert_eol holds no CR LF pair, and no space or tab
\* right before a line feed or at the end of the content.
C22_OutputHasNoCrLfAndNoTrailingBlank ==
    eol_pc = "done" =>
        \A i \in 1..Len(eol_output) :
            /\ ~(eol_output[i] = 13 /\ i < Len(eol_output) /\ eol_output[i + 1] = 10)
            /\ ~(eol_output[i] \in {32, 9}
                 /\ (i = Len(eol_output) \/ eol_output[i + 1] = 10))

-----------------------------------------------------------------------------
(* rename_project.py: process_file_content, style 'c'                      *)

ProjectInit ==
    /\ GeneratorIdle
    /\ MessagesIdle
    /\ EolIdle
    /\ FilesIdle
    /\ project_pc = "loop"
    /\ c_file \in {<<first, second>> : first \in FirstCLines, second \in CLines}
    /\ in_block_comment = FALSE
    /\ new_lines = <<>>

\* the body of "for line in lines": line, in_block_comment =
\* process_c_line(line, in_block_comment); new_lines.append(line)
ProcessLine ==
    /\ project_pc = "loop"
    /\ Len(new_lines) < Len(c_file)
    /\ \E r \in {process_c_line(c_file[Len(new_lines) + 1], in_block_comment)} :
          /\ new_lines' = Append(new_lines, r.line)
          /\ in_block_comment' = r.in_block_comment
    /\ UNCHANGED <<project_pc, c_file>>
    /\ UNCHANGED besides_project

\* return ''.join(new_lines), changes_made
ReturnContent ==
    /\ project_pc = "loop"
    /\ Len(new_lines) = Len(c_file)
    /\ project_pc' = "returned"
    /\ UNCHANGED <<c_file, in_block_comment, new_lines>>
    /\ UNCHANGED besides_project

ProjectNext ==
    \/ ProcessLine
    \/ ReturnContent

ProjectSpec == ProjectInit /\ [][ProjectNext]_vars

\* The comments of a line by the rules of C: for every byte whether it lies
\* in a comment, and whether a block comment is open at the end of the line.
\* state is "code", "string" or "block".
RECURSIVE CommentScan(_, _, _)
CommentScan(line, i, state) ==
    IF i > Len(line) THEN [inside |-> <<>>, open |-> (state = "block")]
    ELSE IF state = "block"
    THEN IF MatchAt(line, BlockEnd, i)
         THEN LET r == CommentScan(line, i + 2, "code") IN
              [inside |-> <<TRUE, TRUE>> \o r.inside, open |-> r.open]
         ELSE LET r == CommentScan(line, i + 1, "block") IN
              [inside |-> <<TRUE>> \o r.inside, open |-> r.open]
    ELSE IF state = "string"
    THEN LET r == CommentScan(line, i + 1,
                              IF line[i] = DoubleQuote THEN "code" ELSE "string") IN
         [inside |-> <<FALSE>> \o r.inside, open |-> r.open]
    ELSE IF MatchAt(line, LineComment, i)
    THEN [inside |-> [j \in 1..(Len(line) - i + 1) |-> TRUE], open |-> FALSE]
    ELSE IF MatchAt(line, BlockStart, i)
    THEN LET r == CommentScan(line, i + 2, "block") IN
         [inside |-> <<TRUE, TRUE>> \o r.inside, open |-> r.open]
    ELSE LET r == CommentScan(line, i + 1,
                              IF line[i] = DoubleQuote THEN "string" ELSE "code") IN
         [inside |-> <<FALSE>> \o r.inside, open |-> r.open]

\* a block comment is open at the start of line k of the file
RECURSIVE OpenBefore(_)
OpenBefore(k) ==
    IF k = 1 THEN FALSE
    ELSE CommentScan(c_file[k - 1], 1,
                     IF OpenBefore(k - 1) THEN "block" ELSE "code").open

\* line k holds neosurf/netsurf, and every occurrence lies inside a comment
OnlyInComments(k) ==
    \E scan \in {CommentScan(c_file[k], 1,
                             IF OpenBefore(k) THEN "block" ELSE "code").inside} :
        /\ \E i \in 1..Len(c_file[k]) : NeosurfAt(c_file[k], i)
        /\ \A i \in 1..Len(c_file[k]) :
              NeosurfAt(c_file[k], i) => \A j \in i..(i + 6) : scan[j]

\* C23: a processed line without the word copyright whose occurrences of
\* neosurf/netsurf all lie inside comments is left as it was.
C23_CommentsKeepTheOldName ==
    \A k \in 1..Len(new_lines) :
        (~is_copyright_line(c_file[k]) /\ OnlyInComments(k))
        => new_lines[k] = c_file[k]

-----------------------------------------------------------------------------
(* rename_files.py: main()                                                 *)

FilesInit ==
    /\ GeneratorIdle
    /\ MessagesIdle
    /\ EolIdle
    /\ ProjectIdle
    /\ files_pc = "walk"
    /\ dry_run \in BOOLEAN
    /\ filesystem \in Trees(MaxNodes)
    /\ walked = {}
    /\ to_rename = <<>>
    /\ renamed = 0

\* one round of "for root, dirs, files in os.walk(root_dir, topdown=False)":
\* the matching files of the directory are appended, then its matching
\* directories, each list in the order the directory listing gives
WalkDirectory ==
    /\ files_pc = "walk"
    /\ \E root \in Directories(filesystem) \ walked :
          /\ ReadyToYield(filesystem, walked, root)
          /\ \E files \in Orders(Collected(filesystem, root, "file")) :
             \E dirs \in Orders(Collected(filesystem, root, "dir")) :
                to_rename' = to_rename \o files \o dirs
          /\ walked' = walked \cup {root}
    /\ UNCHANGED <<files_pc, dry_run, filesystem, renamed>>
    /\ UNCHANGED besides_files

\* os.walk is exhausted: print(f"Found {len(to_rename)} items to rename.")
EndWalk ==
    /\ files_pc = "walk"
    /\ walked = Directories(filesystem)
    /\ files_pc' = "rename"
    /\ UNCHANGED <<dry_run, filesystem, walked, to_rename, renamed>>
    /\ UNCHANGED besides_files

\* one round of "for old_path, type_ in to_rename": an item whose name
\* get_new_name leaves alone is passed over; os.rename (the fallback of a
\* failed git mv too) raises FileNotFoundError when old_path is gone, and
\* the script ends with a traceback
RenameItem ==
    /\ files_pc = "rename"
    /\ renamed < Len(to_rename)
    /\ \E item \in {to_rename[renamed + 1]} :
       \E new_basename \in {get_new_name(basename(item.path))} :
          IF new_basename = basename(item.path) \/ dry_run
          THEN /\ renamed' = renamed + 1
               /\ UNCHANGED <<files_pc, filesystem>>
          ELSE IF item \notin filesystem
          THEN /\ files_pc' = "crashed"
               /\ UNCHANGED <<filesystem, renamed>>
          ELSE /\ filesystem' = rename(filesystem, item.path,
                                       Append(dirname(item.path), new_basename))
               /\ renamed' = renamed + 1
               /\ UNCHANGED files_pc
    /\ UNCHANGED <<dry_run, walked, to_rename>>
    /\ UNCHANGED besides_files

\* the second loop is over
EndRename ==
    /\ files_pc = "rename"
    /\ renamed = Len(to_rename)
    /\ files_pc' = "done"
    /\ UNCHANGED <<dry_run, filesystem, walked, to_rename, renamed>>
    /\ UNCHANGED besides_files

FilesNext ==
    \/ WalkDirectory
    \/ EndWalk
    \/ RenameItem
    \/ EndRename

FilesSpec == FilesInit /\ [][FilesNext]_vars

\* a name holds neosurf or netsurf in some letter case
HoldsOldName(name) ==
    Contains(lower(name), neosurf) \/ Contains(lower(name), netsurf)

\* C24: the new name of every item collected for renaming holds neither
\* neosurf nor netsurf in any letter case.
C24_NewNameHoldsNoOldName ==
    \A i \in 1..Len(to_rename) :
        ~HoldsOldName(get_new_name(basename(to_rename[i].path)))

\* C28: in the rename queue every item comes before every directory above it
\* that is in the queue too, and the item the second loop is about to handle
\* still exists under its original path; no rename fails.
C28_ItemsComeBeforeTheirAncestors ==
    /\ \A i \in 1..Len(to_rename) : \A j \in 1..Len(to_rename) :
          (i # j /\ IsUnder(to_rename[i].path, to_rename[j].path)) => i < j
    /\ (files_pc = "rename" /\ renamed < Len(to_rename))
       => to_rename[renamed + 1] \in filesystem
    /\ files_pc # "crashed"

\* a directory netsurf and the file netsurf in it were both renamed
C28_Witness ==
    /\ files_pc = "done"
    /\ ~dry_run
    /\ Len(to_rename) = 2
    /\ to_rename[2] = Node(<<netsurf>>, "dir")
    /\ to_rename[1] = Node(<<netsurf, netsurf>>, "file")
    /\ filesystem = {Node(<<wisp>>, "dir"), Node(<<wisp, wisp>>, "file")}

=============================================================================
